---- MODULE Spec2Model ----
(***************************************************************************)
(* Pool / deposit accounting programs of arch-network:                     *)
(*   "single" : src/pool/app/program/src/lib.rs                            *)
(*   "yield"  : src/projects/archyield/app/program/src/lib.rs              *)
(*   "multi"  : src/projects/pool/app/program/src/lib.rs                   *)
(* One behaviour runs one of the three programs (variable variant).  The   *)
(* state is the data of the accounts the program reads and writes; every   *)
(* action is one call of a handler, translated statement by statement:     *)
(* a record is persisted exactly where the code serializes it into the     *)
(* account's data, and an early return keeps what was serialized before    *)
(* it.                                                                      *)
(*                                                                         *)
(* Scale.  A u64 is U64Bytes "bytes" of one bit each (the code's 8 bytes   *)
(* of 8 bits), so that overflow at 2^64 happens at 2^U64Bytes.  The build  *)
(* either traps on overflow of an unchecked +,-,* (overflow_checks) or     *)
(* wraps it; both builds are behaviours of the model.                      *)
(*                                                                         *)
(* SpecArith applies the reward-bearing steps (the bookkeeping of deposit  *)
(* and withdraw_rewards) to stored records drawn from bounded sets, with a *)
(* u64 of ArithBits bits, wide enough for whole days of seconds and for    *)
(* non-zero daily payouts.                                                 *)
(***************************************************************************)
EXTENDS Integers, Sequences, FiniteSets, TLC

\* ---------------------------------------------------------------- bounds
U64Bytes == 2
MaxTime == 1
MaxPools == 2
\* the width of a u64 under SpecArith, in bits
ArithBits == 20

U64Mod == 2 ^ U64Bytes
U64Max == U64Mod - 1
U64 == 0 .. U64Max
ArithMod == 2 ^ ArithBits

\* ------------------------------------------------------------- accounts
PoolAccounts == {"p1", "p2", "px"}
\* the accounts whose owner is program_id
ProgramOwned == {"p1", "p2"}
UserAccounts == {"u1", "u2"}
\* keys an owner_account of create_pool may carry
OwnerKeys == {"admin", "mallory"}

Variants == {"single", "yield", "multi"}

\* u64_mod: 2^(width of a u64) in this behaviour, U64Mod under Spec
VARIABLES variant, overflow_checks, u64_mod, now, pool_data, user_data, pool_list

\* in_flight: under SpecInterleaved, how far each caller's deposit has run and
\* what it holds in memory; moved_in: the sum of the amounts the gateway has
\* moved into the pool; serial: no deposit has yet started while another
\* was running
VARIABLES in_flight, moved_in, serial

\* loop_data: what the accounts handed to the loop program hold; loop_ret:
\* the instruction the loop program processed last and what it returned;
\* rush_data: what the accounts handed to the rush program hold
VARIABLES loop_data, loop_ret, rush_data

\* the state of the programs that hold no pools
other_programs == <<loop_data, loop_ret, rush_data>>

\* what the steps of Spec and SpecArith, each a whole call, leave alone
beyond_calls == <<in_flight, moved_in, serial, other_programs>>

\* the state of the pool programs
pool_programs == <<pool_data, user_data, pool_list, in_flight, moved_in, serial>>

vars == <<variant, overflow_checks, u64_mod, now, pool_data, user_data, pool_list, beyond_calls>>

\* account data that no record deserializes from
Uninit == [kind |-> "Uninit"]

\* a checked ledger update that returned its error
Overflowed == [kind |-> "Overflowed"]

\* ----------------------------------------------------------- arithmetic
\* Option::None of checked_add and checked_sub
None == -1
\* the panic of an unchecked operation that overflows in a build with
\* overflow checks
Trap == -2

checked_add(a, b) == IF a + b > u64_mod - 1 THEN None ELSE a + b

checked_sub(a, b) == IF a < b THEN None ELSE a - b

\* an unchecked u64 operation whose exact result is x: the result, or Trap
\* when the build checks overflow and x is out of range
Unchecked(x) ==
    IF x \in 0 .. (u64_mod - 1) THEN x
    ELSE IF overflow_checks THEN Trap
    ELSE x % u64_mod

\* unchecked *, +, -, / on values that may already be Trap
Mul(a, b) == IF a = Trap \/ b = Trap THEN Trap ELSE Unchecked(a * b)

Add(a, b) == IF a = Trap \/ b = Trap THEN Trap ELSE Unchecked(a + b)

Sub(a, b) == IF a = Trap \/ b = Trap THEN Trap ELSE Unchecked(a - b)

Div(a, k) == IF a = Trap THEN Trap ELSE a \div k

\* u64::from_le_bytes / to_le_bytes over U64Bytes one-bit bytes
RECURSIVE from_le_bytes(_)
from_le_bytes(b) ==
    IF b = << >> THEN 0 ELSE Head(b) + 2 * from_le_bytes(Tail(b))

RECURSIVE to_le_n(_, _)
to_le_n(x, n) ==
    IF n = 0 THEN << >> ELSE <<x % 2>> \o to_le_n(x \div 2, n - 1)

to_le_bytes(x) == to_le_n(x, U64Bytes)

\* Clock::default().unix_timestamp as u64: the Clock Source's current time.
\* s is the state a handler runs in: [s.pool_data, s.user_data, s.pool_list, now].
ClockNow(s) == s.now

\* ------------------------------------------------------ handler results
\* What one call leaves behind: the error it returns ("Ok" for Ok(())), the
\* data of every account after it, and what it asked of the Transfer Gateway
\* (invoked: invoke was called; moved: invoke returned Ok; amount: its amount).
Result(e, pd, ud, pl, inv, mov, amt) ==
    [err |-> e, pool_data |-> pd, user_data |-> ud, pool_list |-> pl,
     invoked |-> inv, moved |-> mov, amount |-> amt]

\* a return before invoke and before any serialize
Early(s, e) ==
    Result(e, s.pool_data, s.user_data, s.pool_list, FALSE, FALSE, 0)

\* a return after invoke was called with amt (ok: what invoke returned)
\* and before any serialize
AfterInvoke(s, e, ok, amt) ==
    Result(e, s.pool_data, s.user_data, s.pool_list, TRUE, ok, amt)

\* --------------------------------------------------------------- enums
AssetType_from_u8(value) ==
    CASE value = 0 -> "BTC"
      [] value = 1 -> "Runes"
      [] value = 2 -> "Ordinals"
      [] OTHER -> "InvalidInstructionData"

RiskType_from_u8(value) ==
    CASE value = 0 -> "Low"
      [] value = 1 -> "Medium"
      [] value = 2 -> "High"
      [] OTHER -> "InvalidInstructionData"

\* ------------------------------------------------- shared ledger steps
\* (deposit_amount * apy / 100) / days_in_year, the product unchecked
daily_payout_of(amount, apy) == Div(Div(Mul(amount, apy), 100), 365)

\* (current_time - since) / (24 * 60 * 60)
elapsed_days_of(current_time, since) == Div(Sub(current_time, since), 24 * 60 * 60)

\* apply_deposit with the addition to total_unit left out
apply_deposit_tvl_only(pool, amount) ==
    IF checked_add(pool.tvl, amount) = None THEN Overflowed
    ELSE [pool EXCEPT !.tvl = checked_add(pool.tvl, amount)]

\* pool.tvl = checked_add(..)?; pool.total_unit = checked_add(..)?
\* Overflowed when either addition overflows
apply_deposit(pool, amount) ==
    LET t == checked_add(pool.tvl, amount)
        u == checked_add(pool.total_unit, amount)
    IN IF t = None \/ u = None THEN Overflowed
       ELSE [pool EXCEPT !.tvl = t, !.total_unit = u]

\* apply_withdrawal with the subtraction from total_unit left out
apply_withdrawal_tvl_only(pool, amount) ==
    IF checked_sub(pool.tvl, amount) = None THEN Overflowed
    ELSE [pool EXCEPT !.tvl = checked_sub(pool.tvl, amount)]

\* pool.tvl = checked_sub(..)?; pool.total_unit = checked_sub(..)?
apply_withdrawal(pool, amount) ==
    LET t == checked_sub(pool.tvl, amount)
        u == checked_sub(pool.total_unit, amount)
    IN IF t = None \/ u = None THEN Overflowed
       ELSE [pool EXCEPT !.tvl = t, !.total_unit = u]

\* current_time < user_deposit.start_date + pool.min_period, the sum
\* unchecked
lockup_check(current_time, start_date, min_period) ==
    LET e == Unchecked(start_date + min_period)
    IN IF e = Trap THEN "Trap"
       ELSE IF current_time < e THEN "Locked" ELSE "Open"

\* invoke(..) with its error dropped instead of returned with ?
invoke_error_dropped(s, gateway_ok, amount, rest) ==
    [rest EXCEPT !.moved = gateway_ok]

\* invoke(&transfer_instruction, transfer_accounts)?; followed by the rest
\* of the handler, whose outcome is rest: the gateway's error is returned
\* at once
invoke(s, gateway_ok, amount, rest) ==
    IF ~gateway_ok THEN AfterInvoke(s, "GatewayError", FALSE, amount) ELSE rest

\* ======================================================= "single" program
\* Pool { .. total_unit: 0, tvl: 0, .. is_active: true } of create_pool
Pool_single(key, asset_type, apy, min_period, base_value) ==
    [kind |-> "Pool", pool_pubkey |-> key, risk_type |-> "Low", apy |-> apy,
     min_period |-> min_period, total_unit |-> 0, tvl |-> 0,
     base_value |-> base_value, is_active |-> TRUE, asset_type |-> asset_type]

\* byte i (0-based, as in the code) of instruction_data
At(data, i) == data[i + 1]

\* instruction_data[a..b]
Slice(data, a, b) == SubSeq(data, a + 1, b)

\* Err(e) of create_pool before it builds the Pool
Rejected(e) == [kind |-> "Rejected", err |-> e]

\* create_pool of the single and yield programs up to the Pool it builds:
\* the length checks and the fixed offsets 16, 25, 1, 2..10, 10..18, 18..26
\* of 8-byte fields, here for U64Bytes-byte fields
create_pool_parse(pool_account, enough, is_signer, instruction_data) ==
    LET W == U64Bytes
        len == Len(instruction_data)
        n == At(instruction_data, 0)
    IN IF ~enough THEN Rejected("NotEnoughAccountKeys")
       ELSE IF pool_account \notin ProgramOwned THEN Rejected("IncorrectProgramId")
       ELSE IF ~is_signer THEN Rejected("MissingRequiredSignature")
       ELSE IF len < 2 * W THEN Rejected("InvalidInstructionData")
       ELSE IF len < 1 + 3 * W + n THEN Rejected("InvalidInstructionData")
       ELSE IF AssetType_from_u8(At(instruction_data, 1 + n)) = "InvalidInstructionData"
       THEN Rejected("InvalidInstructionData")
       \* instruction_data[18 + n..26 + n] is out of range
       ELSE IF len < 2 + 3 * W + n THEN Rejected("Panic")
       ELSE Pool_single(
                pool_account,
                AssetType_from_u8(At(instruction_data, 1 + n)),
                from_le_bytes(Slice(instruction_data, 2 + n, 2 + W + n)),
                from_le_bytes(Slice(instruction_data, 2 + W + n, 2 + 2 * W + n)),
                from_le_bytes(Slice(instruction_data, 2 + 2 * W + n, 2 + 3 * W + n)))

create_pool_single(s, pool_account, enough, is_signer, instruction_data) ==
    LET pool == create_pool_parse(pool_account, enough, is_signer, instruction_data)
    IN IF pool.kind = "Rejected" THEN Early(s, pool.err)
       ELSE Result("Ok", [s.pool_data EXCEPT ![pool_account] = pool],
                   s.user_data, s.pool_list, FALSE, FALSE, 0)

\* Deposits { .. } of deposit's else branch
Deposits_single(s, user, pool, amount, daily_payout) ==
    [kind |-> "Deposits", user_pubkey |-> user, pool_pubkey |-> pool,
     deposited_amount |-> amount, status |-> "Active",
     daily_payout |-> daily_payout, start_date |-> ClockNow(s)]

\* deposit after invoke returned Ok: the Deposits is serialized before the
\* Pool's checked additions
deposit_book_single(s, pool_account, user_account, deposit_amount) ==
    LET pool == s.pool_data[pool_account]
        existing == s.user_data[user_account]
    IN IF pool.kind # "Pool"
       THEN AfterInvoke(s, "BorshIoError", TRUE, deposit_amount)
       ELSE
       LET daily_payout == daily_payout_of(deposit_amount, pool.apy)
           sum == IF existing.kind = "Deposits"
                  THEN checked_add(existing.deposited_amount, deposit_amount)
                  ELSE deposit_amount
           payout2 == IF existing.kind = "Deposits" /\ sum # None
                      THEN daily_payout_of(sum, pool.apy) ELSE daily_payout
       IN IF daily_payout = Trap THEN AfterInvoke(s, "Panic", TRUE, deposit_amount)
          ELSE IF sum = None
          THEN AfterInvoke(s, "InvalidAccountData", TRUE, deposit_amount)
          ELSE IF payout2 = Trap THEN AfterInvoke(s, "Panic", TRUE, deposit_amount)
          ELSE
          LET updated_deposit ==
                  IF existing.kind = "Deposits"
                  THEN [existing EXCEPT !.deposited_amount = sum,
                                        !.daily_payout = payout2,
                                        !.start_date = ClockNow(s)]
                  ELSE Deposits_single(s, user_account, pool_account,
                                       deposit_amount, daily_payout)
              ud == [s.user_data EXCEPT ![user_account] = updated_deposit]
              pool2 == apply_deposit(pool, deposit_amount)
          IN IF pool2 = Overflowed
             THEN Result("InvalidAccountData", s.pool_data, ud, s.pool_list,
                         TRUE, TRUE, deposit_amount)
             ELSE Result("Ok", [s.pool_data EXCEPT ![pool_account] = pool2],
                         ud, s.pool_list, TRUE, TRUE, deposit_amount)

deposit_single(s, pool_account, user_account, enough, is_signer, instruction_data, gateway_ok) ==
    IF ~enough THEN Early(s, "NotEnoughAccountKeys")
    ELSE IF pool_account \notin ProgramOwned THEN Early(s, "IncorrectProgramId")
    ELSE IF ~is_signer THEN Early(s, "MissingRequiredSignature")
    ELSE IF Len(instruction_data) < U64Bytes THEN Early(s, "InvalidInstructionData")
    ELSE
    LET deposit_amount == from_le_bytes(Slice(instruction_data, 0, U64Bytes))
    IN invoke(s, gateway_ok, deposit_amount,
              deposit_book_single(s, pool_account, user_account, deposit_amount))

\* withdraw_book_single with user_deposit serialized where it is set, ahead
\* of the InsufficientFunds check
withdraw_book_single_early_write(s, pool_account, user_account, withdraw_amount) ==
    LET pool == s.pool_data[pool_account]
        pool2 == apply_withdrawal(pool, withdraw_amount)
        ud == [s.user_data EXCEPT ![user_account] =
                  [@ EXCEPT !.deposited_amount = 0, !.status = "Withdrawn"]]
    IN IF withdraw_amount > pool.tvl
       THEN Result("InsufficientFunds", s.pool_data, ud, s.pool_list,
                   TRUE, TRUE, withdraw_amount)
       ELSE IF pool2 = Overflowed
       THEN Result("InvalidAccountData", s.pool_data, ud, s.pool_list,
                   TRUE, TRUE, withdraw_amount)
       ELSE Result("Ok", [s.pool_data EXCEPT ![pool_account] = pool2],
                   ud, s.pool_list, TRUE, TRUE, withdraw_amount)

\* withdraw after invoke returned Ok.  user_deposit.deposited_amount = 0 and
\* user_deposit.status = Withdrawn are set on the local copy, which is not
\* serialized; the Pool is.
withdraw_book_single(s, pool_account, user_account, withdraw_amount) ==
    LET pool == s.pool_data[pool_account]
        pool2 == apply_withdrawal(pool, withdraw_amount)
    IN IF withdraw_amount > pool.tvl
       THEN AfterInvoke(s, "InsufficientFunds", TRUE, withdraw_amount)
       ELSE IF pool2 = Overflowed
       THEN AfterInvoke(s, "InvalidAccountData", TRUE, withdraw_amount)
       ELSE Result("Ok", [s.pool_data EXCEPT ![pool_account] = pool2],
                   s.user_data, s.pool_list, TRUE, TRUE, withdraw_amount)

withdraw_single(s, pool_account, user_account, enough, is_signer, instruction_data, gateway_ok) ==
    IF ~enough THEN Early(s, "NotEnoughAccountKeys")
    ELSE IF pool_account \notin ProgramOwned THEN Early(s, "IncorrectProgramId")
    ELSE IF ~is_signer THEN Early(s, "MissingRequiredSignature")
    ELSE
    LET pool == s.pool_data[pool_account]
        user_deposit == s.user_data[user_account]
    IN IF pool.kind # "Pool" THEN Early(s, "BorshIoError")
       ELSE IF user_deposit.kind # "Deposits" THEN Early(s, "BorshIoError")
       ELSE IF user_deposit.deposited_amount = 0 THEN Early(s, "InvalidAccountData")
       ELSE
       LET lock == lockup_check(ClockNow(s), user_deposit.start_date,
                                pool.min_period)
           withdraw_amount == user_deposit.deposited_amount
       IN IF lock = "Trap" THEN Early(s, "Panic")
          ELSE IF lock = "Locked" THEN Early(s, "Custom1")
          ELSE IF Len(instruction_data) < U64Bytes
          THEN Early(s, "InvalidInstructionData")
          ELSE invoke(s, gateway_ok, withdraw_amount,
                      withdraw_book_single(s, pool_account, user_account,
                                           withdraw_amount))

\* ======================================================== "yield" program
\* PoolList::try_from_slice(..) or PoolList { pools: Vec::new() }
PoolList_yield_or_new(s) ==
    IF s.pool_list.kind = "PoolList" THEN s.pool_list
    ELSE [kind |-> "PoolList", pools |-> << >>]

\* the checks and the Pool of the single program's create_pool, then
\* pool_list.pools.push(*pool_account.key) and both serialized
create_pool_yield(s, pool_account, enough, is_signer, instruction_data) ==
    LET pool == create_pool_parse(pool_account, enough, is_signer, instruction_data)
        list == PoolList_yield_or_new(s)
    IN IF pool.kind = "Rejected" THEN Early(s, pool.err)
       ELSE Result("Ok", [s.pool_data EXCEPT ![pool_account] = pool],
                   s.user_data,
                   [list EXCEPT !.pools = Append(@, pool_account)],
                   FALSE, FALSE, 0)

Deposits_yield(s, user, pool, amount, daily_payout) ==
    [kind |-> "Deposits", user_pubkey |-> user, pool_pubkey |-> pool,
     deposited_amount |-> amount, status |-> "Active",
     daily_payout |-> daily_payout, start_date |-> ClockNow(s),
     last_reward_claim_time |-> 0, reward |-> 0]

\* the top-up branch of deposit: the fields of existing after it, in the
\* order the code assigns them (start_date before elapsed_days)
topup_yield(s, existing, sum, apy) ==
    LET payout == daily_payout_of(sum, apy)
        start_date == ClockNow(s)
        elapsed_days ==
            IF existing.last_reward_claim_time = 0
            THEN elapsed_days_of(ClockNow(s), start_date)
            ELSE elapsed_days_of(ClockNow(s), existing.last_reward_claim_time)
        base_reward == Mul(payout, elapsed_days)
        compound_reward ==
            IF existing.reward > 0
            THEN Mul(Div(Div(Mul(existing.reward, apy), 100), 365), elapsed_days)
            ELSE 0
        reward == Add(Add(existing.reward, base_reward), compound_reward)
    IN IF payout = Trap \/ reward = Trap THEN [kind |-> "Trap"]
       ELSE [existing EXCEPT !.deposited_amount = sum, !.daily_payout = payout,
                             !.start_date = start_date, !.reward = reward]

deposit_book_yield(s, pool_account, user_account, deposit_amount) ==
    LET pool == s.pool_data[pool_account]
        existing == s.user_data[user_account]
    IN IF pool.kind # "Pool"
       THEN AfterInvoke(s, "BorshIoError", TRUE, deposit_amount)
       ELSE
       LET daily_payout == daily_payout_of(deposit_amount, pool.apy)
           sum == IF existing.kind = "Deposits"
                  THEN checked_add(existing.deposited_amount, deposit_amount)
                  ELSE deposit_amount
       IN IF daily_payout = Trap THEN AfterInvoke(s, "Panic", TRUE, deposit_amount)
          ELSE IF sum = None
          THEN AfterInvoke(s, "InvalidAccountData", TRUE, deposit_amount)
          ELSE
          LET updated_deposit ==
                  IF existing.kind = "Deposits"
                  THEN topup_yield(s, existing, sum, pool.apy)
                  ELSE Deposits_yield(s, user_account, pool_account,
                                      deposit_amount, daily_payout)
              ud == [s.user_data EXCEPT ![user_account] = updated_deposit]
              pool2 == apply_deposit(pool, deposit_amount)
          IN IF updated_deposit.kind = "Trap"
             THEN AfterInvoke(s, "Panic", TRUE, deposit_amount)
             ELSE IF pool2 = Overflowed
             THEN Result("InvalidAccountData", s.pool_data, ud, s.pool_list,
                         TRUE, TRUE, deposit_amount)
             ELSE Result("Ok", [s.pool_data EXCEPT ![pool_account] = pool2],
                         ud, s.pool_list, TRUE, TRUE, deposit_amount)

deposit_yield(s, pool_account, user_account, enough, is_signer, instruction_data, gateway_ok) ==
    IF ~enough THEN Early(s, "NotEnoughAccountKeys")
    ELSE IF pool_account \notin ProgramOwned THEN Early(s, "IncorrectProgramId")
    ELSE IF ~is_signer THEN Early(s, "MissingRequiredSignature")
    ELSE IF Len(instruction_data) < U64Bytes THEN Early(s, "InvalidInstructionData")
    ELSE
    LET deposit_amount == from_le_bytes(Slice(instruction_data, 0, U64Bytes))
    IN invoke(s, gateway_ok, deposit_amount,
              deposit_book_yield(s, pool_account, user_account, deposit_amount))

\* as in the single program: the Pool is serialized, user_deposit is not
withdraw_book_yield(s, pool_account, user_account, withdraw_amount) ==
    LET pool == s.pool_data[pool_account]
        pool2 == apply_withdrawal(pool, withdraw_amount)
    IN IF withdraw_amount > pool.tvl
       THEN AfterInvoke(s, "InsufficientFunds", TRUE, withdraw_amount)
       ELSE IF pool2 = Overflowed
       THEN AfterInvoke(s, "InvalidAccountData", TRUE, withdraw_amount)
       ELSE Result("Ok", [s.pool_data EXCEPT ![pool_account] = pool2],
                   s.user_data, s.pool_list, TRUE, TRUE, withdraw_amount)

withdraw_yield(s, pool_account, user_account, enough, is_signer, instruction_data, gateway_ok) ==
    IF ~enough THEN Early(s, "NotEnoughAccountKeys")
    ELSE IF pool_account \notin ProgramOwned THEN Early(s, "IncorrectProgramId")
    ELSE IF ~is_signer THEN Early(s, "MissingRequiredSignature")
    ELSE
    LET pool == s.pool_data[pool_account]
        user_deposit == s.user_data[user_account]
    IN IF pool.kind # "Pool" THEN Early(s, "BorshIoError")
       ELSE IF user_deposit.kind # "Deposits" THEN Early(s, "BorshIoError")
       ELSE IF user_deposit.deposited_amount = 0 THEN Early(s, "InvalidAccountData")
       ELSE
       LET lock == lockup_check(ClockNow(s), user_deposit.start_date,
                                pool.min_period)
           withdraw_amount == user_deposit.deposited_amount
       IN IF lock = "Trap" THEN Early(s, "Panic")
          ELSE IF lock = "Locked" THEN Early(s, "Custom1")
          ELSE IF Len(instruction_data) < U64Bytes
          THEN Early(s, "InvalidInstructionData")
          ELSE invoke(s, gateway_ok, withdraw_amount,
                      withdraw_book_yield(s, pool_account, user_account,
                                          withdraw_amount))

\* (((deposit.reward * pool.apy / 100) / days_in_year) * elapsed_days)
\*   + deposit.reward, with deposit.reward = deposit.daily_payout * elapsed_days
\* reward_amount_of with deposit.reward += deposit.daily_payout * elapsed_days
reward_amount_of_accumulated(stored, apy, elapsed_days) ==
    LET reward == Add(stored.reward, Mul(stored.daily_payout, elapsed_days))
    IN Add(Mul(Div(Div(Mul(reward, apy), 100), 365), elapsed_days), reward)

reward_amount_of(stored, apy, elapsed_days) ==
    LET reward == Mul(stored.daily_payout, elapsed_days)
    IN Add(Mul(Div(Div(Mul(reward, apy), 100), 365), elapsed_days), reward)

\* withdraw_rewards_book with deposit.reward = 0 left out
withdraw_rewards_book_keeps_reward(s, user_account, reward_amount) ==
    Result("Ok", s.pool_data,
           [s.user_data EXCEPT ![user_account] =
               [@ EXCEPT !.last_reward_claim_time = ClockNow(s)]],
           s.pool_list, TRUE, TRUE, reward_amount)

\* withdraw_rewards after invoke returned Ok
withdraw_rewards_book(s, user_account, reward_amount) ==
    Result("Ok", s.pool_data,
           [s.user_data EXCEPT ![user_account] =
               [@ EXCEPT !.reward = 0, !.last_reward_claim_time = ClockNow(s)]],
           s.pool_list, TRUE, TRUE, reward_amount)

withdraw_rewards(s, pool_account, user_account, enough, gateway_ok) ==
    IF ~enough THEN Early(s, "NotEnoughAccountKeys")
    ELSE
    LET pool == s.pool_data[pool_account]
        deposit == s.user_data[user_account]
    IN IF pool.kind # "Pool" THEN Early(s, "BorshIoError")
       ELSE IF deposit.kind # "Deposits" THEN Early(s, "InvalidAccountData")
       ELSE IF pool_account \notin ProgramOwned THEN Early(s, "IncorrectProgramId")
       ELSE IF deposit.reward = 0 THEN Early(s, "Custom0")
       ELSE
       LET elapsed_days ==
               IF deposit.last_reward_claim_time = 0
               THEN elapsed_days_of(ClockNow(s), deposit.start_date)
               ELSE elapsed_days_of(ClockNow(s), deposit.last_reward_claim_time)
           reward_amount == reward_amount_of(deposit, pool.apy, elapsed_days)
       IN IF reward_amount = Trap THEN Early(s, "Panic")
          ELSE invoke(s, gateway_ok, reward_amount,
                      withdraw_rewards_book(s, user_account, reward_amount))

\* ======================================================== "multi" program
\* instruction_data no borsh struct deserializes from
Malformed == [kind |-> "Malformed"]

\* PoolList::try_from_slice(..) or the empty PoolList of create_pool
PoolList_multi_or_new(s) ==
    IF s.pool_list.kind = "PoolList" THEN s.pool_list
    ELSE [kind |-> "PoolList", pools |-> << >>, pool_id_to_pubkey |-> << >>,
          admin_list |-> {}]

\* pool_id_to_pubkey.iter().find(|(id, _)| *id == pool_id): the pubkey of
\* the first pair with that id, or "None"
find_pubkey(index, pool_id) ==
    LET hits == {i \in 1 .. Len(index) : index[i][1] = pool_id}
    IN IF hits = {} THEN "None"
       ELSE index[CHOOSE i \in hits : \A j \in hits : i <= j][2]

\* deposits.iter_mut().find(|d| d.pool_id == pool_id): its position, or 0
find_deposit(deposits, pool_id) ==
    LET hits == {i \in 1 .. Len(deposits) : deposits[i].pool_id = pool_id}
    IN IF hits = {} THEN 0 ELSE CHOOSE i \in hits : \A j \in hits : i <= j

\* UserDepositList::try_from_slice(..) or UserDepositList { deposits: Vec::new() }
UserDepositList_or_new(s, user_account) ==
    IF s.user_data[user_account].kind = "UserDepositList"
    THEN s.user_data[user_account].deposits ELSE << >>

Pool_multi(pool_id, key, risk_type, asset_type, param) ==
    [kind |-> "Pool", pool_id |-> pool_id, pool_pubkey |-> key,
     risk_type |-> risk_type, apy |-> param.apy,
     min_period |-> param.min_period, total_unit |-> 0, tvl |-> 0,
     base_value |-> 0, is_active |-> TRUE, asset_type |-> asset_type]

\* is_admin with the allow-list not consulted
is_admin_anyone(list, owner_key) == TRUE

\* pool_list.admin_list.contains(owner_account.key)
is_admin(list, owner_key) == owner_key \in list.admin_list

create_pool_multi(s, pool_account, owner_key, enough, is_signer, instruction_data) ==
    LET list == PoolList_multi_or_new(s)
    IN IF ~enough THEN Early(s, "NotEnoughAccountKeys")
       ELSE IF instruction_data.kind # "PoolParam" THEN Early(s, "InvalidInstructionData")
       ELSE IF ~is_admin(list, owner_key) THEN Early(s, "MissingRequiredSignature")
       ELSE IF ~is_signer THEN Early(s, "MissingRequiredSignature")
       ELSE
       LET asset_type == AssetType_from_u8(instruction_data.asset_type)
           risk_type == RiskType_from_u8(instruction_data.risk_type)
           pool_id == Len(list.pools) + 1
       IN IF asset_type = "InvalidInstructionData" THEN Early(s, "InvalidInstructionData")
          ELSE IF risk_type = "InvalidInstructionData" THEN Early(s, "InvalidInstructionData")
          ELSE Result("Ok",
                      [s.pool_data EXCEPT ![pool_account] =
                          Pool_multi(pool_id, pool_account, risk_type, asset_type,
                                     instruction_data)],
                      s.user_data,
                      [list EXCEPT !.pools = Append(@, pool_id),
                                   !.pool_id_to_pubkey =
                                       Append(@, <<pool_id, pool_account>>)],
                      FALSE, FALSE, 0)

Deposits_multi(s, pool_id, user, pool, amount, daily_payout) ==
    [kind |-> "Deposits", pool_id |-> pool_id, user_pubkey |-> user,
     pool_pubkey |-> pool, deposited_amount |-> amount, status |-> "Active",
     daily_payout |-> daily_payout, start_date |-> ClockNow(s)]

\* deposit after invoke returned Ok: the Pool of the first account is read
\* again and serialized; user_deposit_list is updated in memory and never
\* serialized
deposit_book_multi(s, pool_account, user_account, pool_id, deposit_amount) ==
    LET pool == s.pool_data[pool_account]
        deposits == UserDepositList_or_new(s, user_account)
    IN IF pool.kind # "Pool" THEN AfterInvoke(s, "BorshIoError", TRUE, deposit_amount)
       ELSE
       LET daily_payout == daily_payout_of(deposit_amount, pool.apy)
           at == find_deposit(deposits, pool_id)
           sum == IF at # 0
                  THEN checked_add(deposits[at].deposited_amount, deposit_amount)
                  ELSE deposit_amount
           payout2 == IF at # 0 /\ sum # None
                      THEN daily_payout_of(sum, pool.apy) ELSE daily_payout
           pool2 == apply_deposit(pool, deposit_amount)
       IN IF daily_payout = Trap THEN AfterInvoke(s, "Panic", TRUE, deposit_amount)
          ELSE IF sum = None
          THEN AfterInvoke(s, "InvalidAccountData", TRUE, deposit_amount)
          ELSE IF payout2 = Trap THEN AfterInvoke(s, "Panic", TRUE, deposit_amount)
          ELSE IF pool2 = Overflowed
          THEN AfterInvoke(s, "InvalidAccountData", TRUE, deposit_amount)
          ELSE Result("Ok", [s.pool_data EXCEPT ![pool_account] = pool2],
                      s.user_data, s.pool_list, TRUE, TRUE, deposit_amount)

\* rest: the accounts supplied after the seven named ones
deposit_multi(s, pool_account, user_account, rest, enough, is_signer, instruction_data, gateway_ok) ==
    IF ~enough THEN Early(s, "NotEnoughAccountKeys")
    ELSE IF pool_account \notin ProgramOwned THEN Early(s, "IncorrectProgramId")
    ELSE IF instruction_data.kind # "DepositParam" THEN Early(s, "InvalidInstructionData")
    ELSE IF ~is_signer THEN Early(s, "MissingRequiredSignature")
    ELSE IF s.pool_list.kind # "PoolList" THEN Early(s, "InvalidAccountData")
    ELSE
    LET deposit_amount == instruction_data.amount
        pool_pubkey == find_pubkey(s.pool_list.pool_id_to_pubkey,
                                   instruction_data.pool_id)
    IN IF pool_pubkey = "None" THEN Early(s, "InvalidArgument")
       ELSE IF pool_pubkey \notin rest THEN Early(s, "InvalidAccountData")
       ELSE IF s.pool_data[pool_pubkey].kind # "Pool" THEN Early(s, "InvalidAccountData")
       ELSE invoke(s, gateway_ok, deposit_amount,
                   deposit_book_multi(s, pool_account, user_account,
                                      instruction_data.pool_id, deposit_amount))

\* withdraw after invoke returned Ok: the Pool is serialized; the deposit set
\* to 0 and Withdrawn in user_deposit_list is never serialized
withdraw_book_multi(s, pool_account, user_account, withdraw_amount) ==
    LET pool2 == apply_withdrawal(s.pool_data[pool_account], withdraw_amount)
    IN IF pool2 = Overflowed
       THEN AfterInvoke(s, "InvalidAccountData", TRUE, withdraw_amount)
       ELSE Result("Ok", [s.pool_data EXCEPT ![pool_account] = pool2],
                   s.user_data, s.pool_list, TRUE, TRUE, withdraw_amount)

withdraw_multi(s, pool_account, user_account, enough, is_signer, instruction_data, gateway_ok) ==
    IF ~enough THEN Early(s, "NotEnoughAccountKeys")
    ELSE IF pool_account \notin ProgramOwned THEN Early(s, "IncorrectProgramId")
    ELSE IF ~is_signer THEN Early(s, "MissingRequiredSignature")
    ELSE IF instruction_data.kind # "QueryParam" THEN Early(s, "InvalidInstructionData")
    ELSE
    LET pool == s.pool_data[pool_account]
        deposits == UserDepositList_or_new(s, user_account)
        at == find_deposit(deposits, instruction_data.pool_id)
    IN IF pool.kind # "Pool" THEN Early(s, "BorshIoError")
       ELSE IF at = 0 THEN Early(s, "InvalidAccountData")
       ELSE
       LET user_deposit == deposits[at]
           lock == lockup_check(ClockNow(s), user_deposit.start_date, pool.min_period)
           withdraw_amount == user_deposit.deposited_amount
       IN IF lock = "Trap" THEN Early(s, "Panic")
          ELSE IF lock = "Locked" THEN Early(s, "Custom1")
          ELSE IF withdraw_amount > pool.tvl THEN Early(s, "InsufficientFunds")
          ELSE invoke(s, gateway_ok, withdraw_amount,
                      withdraw_book_multi(s, pool_account, user_account,
                                          withdraw_amount))

\* ================================================================ queries
\* What a query returns: the error ("Ok" for Ok(value)), the value, and the
\* data of every account after it.  The queries borrow account data and
\* call no serialize.
Answer(s, e, v) ==
    [err |-> e, value |-> v, pool_data |-> s.pool_data,
     user_data |-> s.user_data, pool_list |-> s.pool_list]

\* the value of an Err(..)
NoValue == [kind |-> "NoValue"]

\* get_user_deposit of the single program
get_user_deposit_single(s, user_account, enough) ==
    IF ~enough THEN Answer(s, "NotEnoughAccountKeys", NoValue)
    ELSE IF s.user_data[user_account].kind # "Deposits"
    THEN Answer(s, "BorshIoError", NoValue)
    ELSE Answer(s, "Ok", s.user_data[user_account])

\* get_pool of the single and yield programs
get_pool(s, pool_account, enough) ==
    IF ~enough THEN Answer(s, "NotEnoughAccountKeys", NoValue)
    ELSE IF s.pool_data[pool_account].kind # "Pool"
    THEN Answer(s, "BorshIoError", NoValue)
    ELSE Answer(s, "Ok", s.pool_data[pool_account])

\* get_pool_tvl of the single and yield programs
get_pool_tvl(s, pool_account, enough) ==
    IF ~enough THEN Answer(s, "NotEnoughAccountKeys", NoValue)
    ELSE IF s.pool_data[pool_account].kind # "Pool"
    THEN Answer(s, "BorshIoError", NoValue)
    ELSE Answer(s, "Ok", s.pool_data[pool_account].tvl)

\* get_user_deposit of the yield program with the projected reward written
\* back to the account
get_user_deposit_yield_stored(s, user_deposit) ==
    [err |-> "Ok", value |-> user_deposit, pool_data |-> s.pool_data,
     user_data |-> [s.user_data EXCEPT ![user_deposit.user_pubkey] = user_deposit],
     pool_list |-> s.pool_list]

\* Ok(user_deposit) of the yield program's get_user_deposit: the copy with
\* the projected reward is returned and not stored
get_user_deposit_yield_ok(s, user_deposit) ==
    Answer(s, "Ok", user_deposit)

\* get_user_deposit of the yield program: the stored Deposits with reward
\* replaced by a projection from the clock
get_user_deposit_yield(s, pool_account, user_account, enough) ==
    IF ~enough THEN Answer(s, "NotEnoughAccountKeys", NoValue)
    ELSE
    LET pool == s.pool_data[pool_account]
        user_deposit == s.user_data[user_account]
    IN IF pool.kind # "Pool" THEN Answer(s, "BorshIoError", NoValue)
       ELSE IF user_deposit.kind # "Deposits" THEN Answer(s, "BorshIoError", NoValue)
       ELSE
       LET elapsed_days ==
               IF user_deposit.last_reward_claim_time = 0
               THEN elapsed_days_of(ClockNow(s), user_deposit.start_date)
               ELSE elapsed_days_of(ClockNow(s), user_deposit.last_reward_claim_time)
           reward == Mul(user_deposit.daily_payout, elapsed_days)
           reward_payout == Mul(Div(Div(Mul(reward, pool.apy), 100), 365),
                                elapsed_days)
       IN IF reward_payout = Trap THEN Answer(s, "Panic", NoValue)
          ELSE get_user_deposit_yield_ok(
                   s, [user_deposit EXCEPT !.reward = reward_payout])

\* the loop of get_all_pools in the yield program over the keys of pools:
\* the Pool records pushed, or the error at the first key it fails on
RECURSIVE collect_pools_yield(_, _, _)
collect_pools_yield(s, pools, rest) ==
    IF pools = << >> THEN [err |-> "Ok", pools |-> << >>]
    ELSE IF Head(pools) \notin rest
    THEN [err |-> "InvalidAccountData", pools |-> << >>]
    ELSE IF s.pool_data[Head(pools)].kind # "Pool"
    THEN [err |-> "BorshIoError", pools |-> << >>]
    ELSE LET tail == collect_pools_yield(s, Tail(pools), rest)
         IN IF tail.err # "Ok" THEN tail
            ELSE [tail EXCEPT !.pools = <<s.pool_data[Head(pools)]>> \o @]

\* get_all_pools of the yield program; list_owned: pool_list_account.owner
\* is program_id; rest: the keys of the accounts handed in
get_all_pools_yield(s, list_owned, rest, enough) ==
    IF ~enough THEN Answer(s, "NotEnoughAccountKeys", NoValue)
    ELSE IF ~list_owned THEN Answer(s, "IncorrectProgramId", NoValue)
    ELSE IF s.pool_list.kind # "PoolList" THEN Answer(s, "BorshIoError", NoValue)
    ELSE LET got == collect_pools_yield(s, s.pool_list.pools, rest)
         IN IF got.err # "Ok" THEN Answer(s, got.err, NoValue)
            ELSE Answer(s, "Ok", got.pools)

\* get_user_deposit of the multi program
get_user_deposit_multi(s, user_account, enough, instruction_data) ==
    IF ~enough THEN Answer(s, "NotEnoughAccountKeys", NoValue)
    ELSE IF instruction_data.kind # "QueryParam"
    THEN Answer(s, "InvalidInstructionData", NoValue)
    ELSE LET deposits == UserDepositList_or_new(s, user_account)
             at == find_deposit(deposits, instruction_data.pool_id)
         IN IF at = 0 THEN Answer(s, "InvalidAccountData", NoValue)
            ELSE Answer(s, "Ok", deposits[at])

\* collect_pools_multi with an id that does not resolve passed over
RECURSIVE collect_pools_multi_skipping(_, _, _, _)
collect_pools_multi_skipping(s, pools, index, rest) ==
    IF pools = << >> THEN [err |-> "Ok", pools |-> << >>]
    ELSE
    LET pool_pubkey == find_pubkey(index, Head(pools))
        tail == collect_pools_multi_skipping(s, Tail(pools), index, rest)
    IN IF pool_pubkey = "None" \/ pool_pubkey \notin rest THEN tail
       ELSE IF s.pool_data[pool_pubkey].kind # "Pool" THEN tail
       ELSE [tail EXCEPT !.pools = <<s.pool_data[pool_pubkey]>> \o @]

\* the loop of get_all_pools in the multi program over the ids of pools
RECURSIVE collect_pools_multi(_, _, _, _)
collect_pools_multi(s, pools, index, rest) ==
    IF pools = << >> THEN [err |-> "Ok", pools |-> << >>]
    ELSE
    LET pool_pubkey == find_pubkey(index, Head(pools))
    IN IF pool_pubkey = "None" THEN [err |-> "InvalidArgument", pools |-> << >>]
       ELSE IF pool_pubkey \notin rest
       THEN [err |-> "InvalidAccountData", pools |-> << >>]
       ELSE IF s.pool_data[pool_pubkey].kind # "Pool"
       THEN [err |-> "BorshIoError", pools |-> << >>]
       ELSE LET tail == collect_pools_multi(s, Tail(pools), index, rest)
            IN IF tail.err # "Ok" THEN tail
               ELSE [tail EXCEPT !.pools = <<s.pool_data[pool_pubkey]>> \o @]

\* get_all_pools of the multi program
get_all_pools_multi(s, list_owned, rest, enough) ==
    IF ~enough THEN Answer(s, "NotEnoughAccountKeys", NoValue)
    ELSE IF ~list_owned THEN Answer(s, "IncorrectProgramId", NoValue)
    ELSE IF s.pool_list.kind # "PoolList" THEN Answer(s, "BorshIoError", NoValue)
    ELSE LET got == collect_pools_multi(s, s.pool_list.pools,
                                        s.pool_list.pool_id_to_pubkey, rest)
         IN IF got.err # "Ok" THEN Answer(s, got.err, NoValue)
            ELSE Answer(s, "Ok", got.pools)

\* the lookup get_pool_by_id and get_pool_tvl of the multi program share:
\* the Pool the registry maps pool_id to, among the accounts of rest
lookup_pool(s, pool_id, rest) ==
    LET pool_pubkey == find_pubkey(s.pool_list.pool_id_to_pubkey, pool_id)
    IN IF pool_pubkey = "None" THEN Answer(s, "InvalidArgument", NoValue)
       ELSE IF pool_pubkey \notin rest THEN Answer(s, "InvalidAccountData", NoValue)
       ELSE IF s.pool_data[pool_pubkey].kind # "Pool"
       THEN Answer(s, "InvalidAccountData", NoValue)
       ELSE Answer(s, "Ok", s.pool_data[pool_pubkey])

\* get_pool_by_id of the multi program: the payload is parsed first
get_pool_by_id(s, rest, enough, instruction_data) ==
    IF instruction_data.kind # "QueryParam"
    THEN Answer(s, "InvalidInstructionData", NoValue)
    ELSE IF ~enough THEN Answer(s, "NotEnoughAccountKeys", NoValue)
    ELSE IF s.pool_list.kind # "PoolList" THEN Answer(s, "InvalidAccountData", NoValue)
    ELSE lookup_pool(s, instruction_data.pool_id, rest)

\* get_pool_tvl of the multi program: the registry is parsed first
get_pool_tvl_multi(s, rest, enough, instruction_data) ==
    IF ~enough THEN Answer(s, "NotEnoughAccountKeys", NoValue)
    ELSE IF s.pool_list.kind # "PoolList" THEN Answer(s, "InvalidAccountData", NoValue)
    ELSE IF instruction_data.kind # "QueryParam"
    THEN Answer(s, "InvalidInstructionData", NoValue)
    ELSE LET found == lookup_pool(s, instruction_data.pool_id, rest)
         IN IF found.err # "Ok" THEN found
            ELSE Answer(s, "Ok", found.value.tvl)

\* ============================================================ the machine
\* process_instruction hands the single and yield handlers the whole
\* instruction_data, opcode byte included, and the multi handlers
\* &instruction_data[1..]
Dispatched(opcode, payload) ==
    IF variant = "multi" THEN payload ELSE <<opcode>> \o payload

\* ------------------------------------------------ the inputs enumerated
AssetCodes == {1, 3}
RiskCodes == {2, 3}
ApyValues == {2}
MinPeriods == {1, U64Max}
\* the amount:u64 fields callers put into deposit payloads
PayloadAmounts == {0, 1, U64Max}

\* create_pool payloads of the single and yield programs: the byte the
\* handler reads the asset type from when handed the opcode as well, apy,
\* min_period, base_value; whole, with the last byte missing, or one byte
CreatePayloads ==
    LET whole == {<<a>> \o to_le_bytes(apy) \o to_le_bytes(mp) \o to_le_bytes(0) :
                     a \in AssetCodes, apy \in ApyValues, mp \in MinPeriods}
        w0 == CHOOSE w \in whole : TRUE
    IN whole \cup {SubSeq(w0, 1, Len(w0) - 1), <<1>>}

PoolParams ==
    {[kind |-> "PoolParam", risk_type |-> r, apy |-> apy, min_period |-> mp,
      asset_type |-> a] :
        r \in RiskCodes, apy \in ApyValues, mp \in MinPeriods, a \in AssetCodes}
    \cup {Malformed}

\* deposit and withdraw payloads: amount:u64, or nothing after the opcode
AmountPayloads == {to_le_bytes(a) : a \in PayloadAmounts} \cup {<< >>}

PoolIds == 0 .. MaxPools

DepositParams ==
    {[kind |-> "DepositParam", pool_id |-> i, amount |-> a] :
        i \in PoolIds, a \in PayloadAmounts} \cup {Malformed}

QueryParams == {[kind |-> "QueryParam", pool_id |-> i] : i \in PoolIds}
               \cup {Malformed}

\* A call: the accounts handed in (enough: as many as the handler takes
\* with next_account_info), whether the caller's account signed, the
\* payload, what invoke will return, and for the multi program the key of
\* owner_account and the accounts after the named ones.  An input that a
\* failing earlier check keeps the handler from reading is held at one
\* value.
Calls(payloads, owners, rests) ==
    {c \in [pool_account : PoolAccounts, user_account : UserAccounts,
            enough : BOOLEAN, is_signer : BOOLEAN, gateway_ok : BOOLEAN,
            payload : payloads, owner_key : owners, rest : rests] :
        /\ ~c.enough => c.is_signer /\ c.gateway_ok
                        /\ c.pool_account = "p1" /\ c.user_account = "u1"
        /\ ~c.is_signer => c.gateway_ok}

CreateCallsSingle ==
    {c \in Calls(CreatePayloads, {"admin"}, {{}}) :
        c.user_account = "u1" /\ c.gateway_ok}

CreateCallsMulti ==
    {c \in Calls(PoolParams, OwnerKeys, {{}}) :
        c.user_account = "u1" /\ c.gateway_ok}

AmountCalls == Calls(AmountPayloads, {"admin"}, {{}})

DepositCallsMulti == Calls(DepositParams, {"admin"}, {{}, PoolAccounts})

WithdrawCallsMulti == Calls(QueryParams, {"admin"}, {{}})

RewardCalls ==
    {c \in Calls({<< >>}, {"admin"}, {{}}) : c.is_signer}

QueryNames ==
    {"get_user_deposit", "get_pool", "get_pool_tvl", "get_pool_by_id",
     "get_all_pools"}

\* A query call: the function, the accounts handed in and the payload; an
\* input the function does not read is held at one value.
QueryCalls ==
    {q \in [query : QueryNames, pool_account : PoolAccounts,
            user_account : UserAccounts, enough : BOOLEAN,
            list_owned : BOOLEAN, payload : QueryParams,
            rest : {{}, PoolAccounts}] :
        /\ q.query \in {"get_user_deposit", "get_pool"} \/ ~q.enough
               => q.rest = PoolAccounts
        /\ q.query # "get_all_pools" \/ ~q.enough => q.list_owned
        /\ q.query \in {"get_pool_by_id", "get_all_pools"} \/ ~q.enough
               => q.pool_account = "p1"
        /\ q.query # "get_user_deposit" \/ ~q.enough => q.user_account = "u1"
        /\ q.query \in {"get_pool", "get_all_pools"} \/ ~q.enough
               => q.payload = Malformed}

\* the registry account of the multi program as deployed: create_pool reads
\* the admin allow-list from it and no handler writes one
SeededRegistry ==
    [kind |-> "PoolList", pools |-> << >>, pool_id_to_pubkey |-> << >>,
     admin_list |-> {"admin"}]

\* what a user_account handed to the multi program can hold: deposit and
\* withdraw read a UserDepositList from it without checking who owns the
\* account, and no handler writes one
StoredDepositLists ==
    {Uninit}
    \cup {[kind |-> "UserDepositList",
           deposits |-> <<[kind |-> "Deposits", pool_id |-> 1,
                           user_pubkey |-> "u1", pool_pubkey |-> "p1",
                           deposited_amount |-> a, status |-> st,
                           daily_payout |-> 0, start_date |-> 0]>>] :
            <<a, st>> \in {<<1, "Active">>, <<0, "Withdrawn">>}}

\* the state a handler called now runs in
Here ==
    [pool_data |-> pool_data, user_data |-> user_data, pool_list |-> pool_list,
     now |-> now]

\* the state a call that returned r in state s leaves
After(s, r) ==
    [pool_data |-> r.pool_data, user_data |-> r.user_data,
     pool_list |-> r.pool_list, now |-> s.now]

\* process_instruction, one opcode: the handler the program of this
\* behaviour runs on call c in state s, and what it returns
create_pool(s, c) ==
    CASE variant = "single" ->
            create_pool_single(s, c.pool_account, c.enough, c.is_signer,
                               Dispatched(0, c.payload))
      [] variant = "yield" ->
            create_pool_yield(s, c.pool_account, c.enough, c.is_signer,
                              Dispatched(0, c.payload))
      [] variant = "multi" ->
            create_pool_multi(s, c.pool_account, c.owner_key, c.enough,
                              c.is_signer, Dispatched(0, c.payload))

deposit(s, c) ==
    CASE variant = "single" ->
            deposit_single(s, c.pool_account, c.user_account, c.enough,
                           c.is_signer, Dispatched(1, c.payload), c.gateway_ok)
      [] variant = "yield" ->
            deposit_yield(s, c.pool_account, c.user_account, c.enough,
                          c.is_signer, Dispatched(1, c.payload), c.gateway_ok)
      [] variant = "multi" ->
            deposit_multi(s, c.pool_account, c.user_account, c.rest, c.enough,
                          c.is_signer, Dispatched(1, c.payload), c.gateway_ok)

withdraw(s, c) ==
    CASE variant = "single" ->
            withdraw_single(s, c.pool_account, c.user_account, c.enough,
                            c.is_signer, Dispatched(2, c.payload), c.gateway_ok)
      [] variant = "yield" ->
            withdraw_yield(s, c.pool_account, c.user_account, c.enough,
                           c.is_signer, Dispatched(2, c.payload), c.gateway_ok)
      [] variant = "multi" ->
            withdraw_multi(s, c.pool_account, c.user_account, c.enough,
                           c.is_signer, Dispatched(2, c.payload), c.gateway_ok)

\* withdraw_rewards is public and is no opcode of process_instruction
claim_reward(s, c) ==
    withdraw_rewards(s, c.pool_account, c.user_account, c.enough, c.gateway_ok)

\* the queries each program has
QueriesOf(v) ==
    CASE v = "single" -> {"get_user_deposit", "get_pool", "get_pool_tvl"}
      [] v = "yield" -> {"get_user_deposit", "get_pool", "get_pool_tvl",
                         "get_all_pools"}
      [] v = "multi" -> {"get_user_deposit", "get_pool_by_id", "get_pool_tvl",
                         "get_all_pools"}

\* the query function the program of this behaviour runs on call q
query(s, q) ==
    CASE q.query = "get_user_deposit" /\ variant = "single" ->
            get_user_deposit_single(s, q.user_account, q.enough)
      [] q.query = "get_user_deposit" /\ variant = "yield" ->
            get_user_deposit_yield(s, q.pool_account, q.user_account, q.enough)
      [] q.query = "get_user_deposit" /\ variant = "multi" ->
            get_user_deposit_multi(s, q.user_account, q.enough, q.payload)
      [] q.query = "get_pool" ->
            get_pool(s, q.pool_account, q.enough)
      [] q.query = "get_pool_tvl" /\ variant # "multi" ->
            get_pool_tvl(s, q.pool_account, q.enough)
      [] q.query = "get_pool_tvl" /\ variant = "multi" ->
            get_pool_tvl_multi(s, q.rest, q.enough, q.payload)
      [] q.query = "get_pool_by_id" ->
            get_pool_by_id(s, q.rest, q.enough, q.payload)
      [] q.query = "get_all_pools" /\ variant = "yield" ->
            get_all_pools_yield(s, q.list_owned, q.rest, q.enough)
      [] q.query = "get_all_pools" /\ variant = "multi" ->
            get_all_pools_multi(s, q.list_owned, q.rest, q.enough)

CreateCalls == IF variant = "multi" THEN CreateCallsMulti ELSE CreateCallsSingle

DepositCalls == IF variant = "multi" THEN DepositCallsMulti ELSE AmountCalls

WithdrawCalls == IF variant = "multi" THEN WithdrawCallsMulti ELSE AmountCalls

Commit(r) ==
    /\ pool_data' = r.pool_data
    /\ user_data' = r.user_data
    /\ pool_list' = r.pool_list
    /\ UNCHANGED <<variant, overflow_checks, u64_mod, now, beyond_calls>>

\* no deposit is running for a caller
Idle == [pc |-> "idle", amount |-> 0, pool |-> Uninit, user |-> Uninit]

\* accounts of the loop and rush programs
LoopAccounts == {"a1", "a2"}
RushAccounts == {"r1", "r2", "r3"}

\* no instruction processed yet
NoRet == [kind |-> "NoRet"]

\* no deposit is in flight and the loop and rush programs have not run
NoneInFlight ==
    /\ in_flight = [u \in UserAccounts |-> Idle]
    /\ moved_in = 0
    /\ serial = TRUE
    /\ loop_data = [a \in LoopAccounts |-> Uninit]
    /\ loop_ret = NoRet
    /\ rush_data = [a \in RushAccounts |-> Uninit]

Init ==
    /\ NoneInFlight
    /\ variant \in Variants
    /\ overflow_checks \in BOOLEAN
    /\ u64_mod = U64Mod
    /\ now = 0
    /\ pool_data = [a \in PoolAccounts |-> Uninit]
    /\ user_data \in IF variant = "multi"
                     THEN {[a \in UserAccounts |->
                               IF a = "u1" THEN l ELSE Uninit] :
                              l \in StoredDepositLists}
                     ELSE {[a \in UserAccounts |-> Uninit]}
    /\ pool_list \in IF variant = "multi" THEN {Uninit, SeededRegistry}
                     ELSE {Uninit}

\* the Clock Source moves on
Tick ==
    /\ now < MaxTime
    /\ now' = now + 1
    /\ UNCHANGED <<variant, overflow_checks, u64_mod, pool_data, user_data, pool_list, beyond_calls>>

\* the registry holds fewer than MaxPools pools
RoomInRegistry ==
    pool_list.kind = "PoolList" => Len(pool_list.pools) < MaxPools

CreatePool ==
    /\ RoomInRegistry
    /\ \E c \in CreateCalls : Commit(create_pool(Here, c))

Deposit == \E c \in DepositCalls : Commit(deposit(Here, c))

Withdraw == \E c \in WithdrawCalls : Commit(withdraw(Here, c))

WithdrawRewards ==
    /\ variant = "yield"
    /\ \E c \in RewardCalls : Commit(claim_reward(Here, c))

\* a query is called: the accounts hold afterwards what it left in them
Query ==
    \E q \in QueryCalls :
        /\ q.query \in QueriesOf(variant)
        /\ Commit(query(Here, q))

Next == Tick \/ CreatePool \/ Deposit \/ Withdraw \/ WithdrawRewards \/ Query

Spec == Init /\ [][Next]_vars

\* ------------------------------------------------------------- SpecArith
\* apy of the Pool the steps run on; the stored daily_payout was computed
\* at an apy of DepositApys, which create_pool called again on the same
\* account may since have replaced
ArithApys == {2, 1000, 100000}
DepositApys == {2, 1000}
\* deposit amounts, and the principals of the stored Deposits
ArithAmounts == {200000, 300000}
\* the clock: the start, three days later, ten days and a second later
ArithTimes == {0, 3 * (24 * 60 * 60), 10 * (24 * 60 * 60) + 1}
\* reward and last_reward_claim_time of a stored Deposits of the yield program
ArithRewards == {0, 50}
ArithClaimTimes == {0, 24 * 60 * 60}

\* a stored Deposits of u1 in p1, made at time 0 at apy0
StoredArith(principal, apy0, reward, claimed) ==
    IF variant = "single"
    THEN [kind |-> "Deposits", user_pubkey |-> "u1", pool_pubkey |-> "p1",
          deposited_amount |-> principal, status |-> "Active",
          daily_payout |-> daily_payout_of(principal, apy0), start_date |-> 0]
    ELSE [kind |-> "Deposits", user_pubkey |-> "u1", pool_pubkey |-> "p1",
          deposited_amount |-> principal, status |-> "Active",
          daily_payout |-> daily_payout_of(principal, apy0), start_date |-> 0,
          last_reward_claim_time |-> claimed, reward |-> reward]

\* the Pool at p1 and what u1 holds: nothing, or a Deposits whose
\* daily_payout the build could compute and whose last claim is not in
\* the future
InitArith ==
    /\ NoneInFlight
    /\ variant \in {"single", "yield"}
    /\ overflow_checks \in BOOLEAN
    /\ u64_mod = ArithMod
    /\ now \in ArithTimes
    /\ pool_list = Uninit
    /\ \E apy \in ArithApys, stored \in
              {Uninit} \cup
              {StoredArith(a, apy0, r, t) :
                   a \in ArithAmounts, apy0 \in DepositApys,
                   r \in IF variant = "yield" THEN ArithRewards ELSE {0},
                   t \in IF variant = "yield" THEN ArithClaimTimes ELSE {0}} :
           /\ stored.kind = "Deposits"
                  => /\ stored.daily_payout # Trap
                     /\ variant = "yield" => stored.last_reward_claim_time <= now
           /\ user_data = [u \in UserAccounts |->
                              IF u = "u1" THEN stored ELSE Uninit]
           /\ pool_data =
                  [a \in PoolAccounts |->
                      IF a # "p1" THEN Uninit
                      ELSE LET total == IF stored.kind = "Deposits"
                                        THEN stored.deposited_amount ELSE 0
                           IN [Pool_single("p1", "Runes", apy, 0, 0)
                                  EXCEPT !.tvl = total, !.total_unit = total]]

\* the amounts deposit is applied to in this state: none into a Pool of an
\* apy above DepositApys, whose products with the principals are beyond
\* the integers of the model
DepositInputs ==
    IF pool_data["p1"].apy \in DepositApys THEN ArithAmounts ELSE {}

\* deposit after invoke returned Ok, in the program of this behaviour
deposit_book(s, pool_account, user_account, deposit_amount) ==
    CASE variant = "single" ->
            deposit_book_single(s, pool_account, user_account, deposit_amount)
      [] variant = "yield" ->
            deposit_book_yield(s, pool_account, user_account, deposit_amount)
      [] variant = "multi" ->
            deposit_book_multi(s, pool_account, user_account,
                               s.pool_data[pool_account].pool_id, deposit_amount)

\* the Clock Source moves on to a later time of ArithTimes
TickDays ==
    /\ \E t \in ArithTimes : t > now /\ now' = t
    /\ UNCHANGED <<variant, overflow_checks, u64_mod, pool_data, user_data, pool_list, beyond_calls>>

DepositBook ==
    \E u \in UserAccounts, a \in DepositInputs :
        Commit(deposit_book(Here, "p1", u, a))

ClaimReward ==
    /\ variant = "yield"
    /\ \E u \in UserAccounts, gateway_ok \in BOOLEAN :
           Commit(withdraw_rewards(Here, "p1", u, TRUE, gateway_ok))

NextArith == TickDays \/ DepositBook \/ ClaimReward

SpecArith == InitArith /\ [][NextArith]_vars

\* ------------------------------------------------------- SpecInterleaved
\* deposit run by several callers with no host serialization: a step is the
\* invoke, the reads of the Pool and of the caller's account that follow
\* it, or the serialize calls that end the handler
InterleavedAmounts == {1, 2}
\* the deposits drawn move at most this much
MaxMovedIn == 4

\* a Pool at p1 that create_pool has written, nothing deposited
InitInterleaved ==
    /\ NoneInFlight
    /\ variant \in Variants
    /\ overflow_checks \in BOOLEAN
    /\ u64_mod = ArithMod
    /\ now = 0
    /\ user_data = [u \in UserAccounts |-> Uninit]
    /\ pool_data =
           [a \in PoolAccounts |->
               IF a # "p1" THEN Uninit
               ELSE IF variant = "multi"
               THEN Pool_multi(1, "p1", "Low", "BTC", [apy |-> 2, min_period |-> 0])
               ELSE Pool_single("p1", "BTC", 2, 0, 0)]
    /\ pool_list =
           CASE variant = "single" -> Uninit
             [] variant = "yield" -> [kind |-> "PoolList", pools |-> <<"p1">>]
             [] variant = "multi" ->
                  [SeededRegistry EXCEPT !.pools = <<1>>,
                                         !.pool_id_to_pubkey = <<<<1, "p1">>>>]

\* the checks have passed and invoke returns Ok: the gateway has moved the amount
DepositInvoke ==
    \E u \in UserAccounts, a \in InterleavedAmounts :
        /\ in_flight[u].pc = "idle"
        /\ moved_in + a <= MaxMovedIn
        /\ in_flight' = [in_flight EXCEPT ![u] = [Idle EXCEPT !.pc = "invoked",
                                                              !.amount = a]]
        /\ moved_in' = moved_in + a
        /\ serial' = (serial /\ \A v \in UserAccounts : in_flight[v].pc = "idle")
        /\ UNCHANGED <<variant, overflow_checks, u64_mod, now, pool_data, user_data, pool_list, other_programs>>

\* Pool::try_from_slice and the read of the caller's account after invoke
DepositRead ==
    \E u \in UserAccounts :
        /\ in_flight[u].pc = "invoked"
        /\ in_flight' = [in_flight EXCEPT ![u] = [@ EXCEPT !.pc = "read",
                                                           !.pool = pool_data["p1"],
                                                           !.user = user_data[u]]]
        /\ UNCHANGED <<variant, overflow_checks, u64_mod, now, pool_data, user_data, pool_list, moved_in, serial, other_programs>>

\* what an account holds after a handler that read local from it and ends
\* with result in memory: stored is kept when nothing was serialized
WriteBack(stored, local, result) == IF result = local THEN stored ELSE result

\* the rest of deposit on the records read: the caller's record and the
\* Pool, computed from the copies in memory, are serialized
DepositWrite ==
    \E u \in UserAccounts :
        LET call == in_flight[u]
            seen == [Here EXCEPT !.pool_data["p1"] = call.pool,
                                 !.user_data[u] = call.user]
            r == deposit_book(seen, "p1", u, call.amount)
        IN /\ call.pc = "read"
           /\ pool_data' = [pool_data EXCEPT !["p1"] =
                                WriteBack(@, call.pool, r.pool_data["p1"])]
           /\ user_data' = [user_data EXCEPT ![u] =
                                WriteBack(@, call.user, r.user_data[u])]
           /\ in_flight' = [in_flight EXCEPT ![u] = Idle]
           /\ UNCHANGED <<variant, overflow_checks, u64_mod, now, pool_list, moved_in, serial, other_programs>>

NextInterleaved == DepositInvoke \/ DepositRead \/ DepositWrite

SpecInterleaved == InitInterleaved /\ [][NextInterleaved]_vars

\* ========================================================= "loop" program
\* the most accounts an instruction is handed
MaxAccounts == 4

\* the account lists an instruction is handed
AccountLists == UNION {[1 .. n -> LoopAccounts] : n \in 0 .. MaxAccounts}

\* instruction_data: empty, or an opcode byte followed by a payload that
\* the opcode's borsh struct does or does not deserialize from
NoData == [kind |-> "NoData"]

LoopInstructions ==
    {NoData} \cup
    {[kind |-> "Data", opcode |-> o, payload_ok |-> b] :
        o \in 0 .. 4, b \in BOOLEAN}

\* what process_instruction returns and leaves in the accounts
LoopResult(e, data) == [err |-> e, data |-> data]

\* create_agent: next_account_info twice, AgentParam::try_from_slice,
\* initialize_mint (mint_ok: it returned Ok) on the second account, the
\* Agent serialized into the first
create_agent(data, accounts, payload_ok, mint_ok) ==
    IF Len(accounts) < 1 THEN LoopResult("NotEnoughAccountKeys", data)
    ELSE IF Len(accounts) < 2 THEN LoopResult("NotEnoughAccountKeys", data)
    ELSE IF ~payload_ok THEN LoopResult("InvalidInstructionData", data)
    ELSE IF ~mint_ok THEN LoopResult("MintError", data)
    ELSE LET minted == [data EXCEPT ![accounts[2]] = [kind |-> "Mint"]]
         IN LoopResult("Ok", [minted EXCEPT ![accounts[1]] =
                                 [kind |-> "Agent", token_mint |-> accounts[2]]])

\* the handlers of opcodes 1, 2 and 3, called with the accounts the arm
\* took (handler_ok: the handler returned Ok)
loop_handler(data, payload_ok, handler_ok) ==
    IF ~payload_ok THEN LoopResult("InvalidArgument", data)
    ELSE IF ~handler_ok THEN LoopResult("HandlerError", data)
    ELSE LoopResult("Ok", data)

\* the number of accounts each arm of process_instruction asks for
ExpectedAccounts(opcode) ==
    CASE opcode = 0 -> 1
      [] opcode = 1 -> 3
      [] opcode = 2 -> 3
      [] opcode = 3 -> 4

\* process_instruction of the loop program; instruction_data[0] of an
\* empty slice panics
loop_process_instruction(data, instruction_data, accounts, handler_ok) ==
    IF instruction_data.kind = "NoData" THEN LoopResult("Panic", data)
    ELSE IF instruction_data.opcode \notin 0 .. 3
    THEN LoopResult("InvalidArgument", data)
    ELSE IF Len(accounts) # ExpectedAccounts(instruction_data.opcode)
    THEN LoopResult("Custom502", data)
    ELSE IF instruction_data.opcode = 0
    THEN create_agent(data, accounts, instruction_data.payload_ok, handler_ok)
    ELSE IF instruction_data.opcode = 1
    THEN loop_handler(data, TRUE, handler_ok)
    ELSE loop_handler(data, instruction_data.payload_ok, handler_ok)

InitLoop ==
    /\ NoneInFlight
    /\ variant = "loop"
    /\ overflow_checks \in BOOLEAN
    /\ u64_mod = ArithMod
    /\ now = 0
    /\ pool_data = [a \in PoolAccounts |-> Uninit]
    /\ user_data = [a \in UserAccounts |-> Uninit]
    /\ pool_list = Uninit

\* an instruction is processed: the accounts hold what it left and loop_ret
\* records it
LoopStep(instruction_data) ==
    \E accounts \in AccountLists, handler_ok \in BOOLEAN :
        LET r == loop_process_instruction(loop_data, instruction_data,
                                          accounts, handler_ok)
        IN /\ loop_data' = r.data
           /\ loop_ret' = [kind |-> "Ret", instruction_data |-> instruction_data,
                           accounts |-> accounts, err |-> r.err]
           /\ UNCHANGED <<variant, overflow_checks, u64_mod, now, pool_programs, rush_data>>

CreateAgent == \E b \in BOOLEAN : LoopStep([kind |-> "Data", opcode |-> 0, payload_ok |-> b])

InitializeBalanceAccount == LoopStep([kind |-> "Data", opcode |-> 1, payload_ok |-> TRUE])

MintTokens == \E b \in BOOLEAN : LoopStep([kind |-> "Data", opcode |-> 2, payload_ok |-> b])

TransferTokens == \E b \in BOOLEAN : LoopStep([kind |-> "Data", opcode |-> 3, payload_ok |-> b])

NoSuchOpcode == \E d \in {NoData, [kind |-> "Data", opcode |-> 4, payload_ok |-> TRUE]} : LoopStep(d)

NextLoop == CreateAgent \/ InitializeBalanceAccount \/ MintTokens \/ TransferTokens \/ NoSuchOpcode

SpecLoop == InitLoop /\ [][NextLoop]_vars

\* ========================================================= "rush" program
\* User { user_pubkey, spins, last_spin_time }
User(key, spins, last_spin_time) ==
    [kind |-> "User", user_pubkey |-> key, spins |-> spins,
     last_spin_time |-> last_spin_time]

\* what a handler returns, what it leaves in the accounts, and the User it
\* holds in memory when it returns
RushResult(e, data, user) == [err |-> e, data |-> data, user |-> user]

\* create_user: the User is built and logged; the serialize call is
\* commented out
create_user(data, accounts) ==
    IF Len(accounts) < 1 THEN RushResult("NotEnoughAccountKeys", data, Uninit)
    ELSE IF data[accounts[1]].kind = "User"
    THEN RushResult("AccountAlreadyInitialized", data, Uninit)
    ELSE RushResult("Ok", data, User(accounts[1], 10, 0))

\* the spins start computes; ten_hrs and one_hr are both the current time
spins_of(user, current_time) ==
    IF user.last_spin_time = 0 THEN 10
    ELSE LET diff == Unchecked(current_time - user.last_spin_time)
         IN IF diff = Trap THEN Trap
            ELSE IF diff > current_time THEN 10
            ELSE IF current_time = 0 THEN Trap
            ELSE diff \div current_time

\* start: user.spins is set in memory and nothing is serialized
start(data, accounts, current_time) ==
    IF Len(accounts) < 1 THEN RushResult("NotEnoughAccountKeys", data, Uninit)
    ELSE IF data[accounts[1]].kind # "User"
    THEN RushResult("InvalidAccountData", data, Uninit)
    ELSE LET user == data[accounts[1]]
             spins == spins_of(user, current_time)
         IN IF spins = Trap THEN RushResult("Panic", data, Uninit)
            ELSE RushResult("Ok", data, [user EXCEPT !.spins = spins])

\* end_game: last_spin_time = now, serialized
end_game(data, accounts, current_time) ==
    IF Len(accounts) < 1 THEN RushResult("NotEnoughAccountKeys", data, Uninit)
    ELSE IF data[accounts[1]].kind # "User"
    THEN RushResult("InvalidAccountData", data, Uninit)
    ELSE LET user == [data[accounts[1]] EXCEPT !.last_spin_time = current_time]
         IN RushResult("Ok", [data EXCEPT ![accounts[1]] = user], user)

get_user(data, accounts) ==
    IF Len(accounts) < 1 THEN RushResult("NotEnoughAccountKeys", data, Uninit)
    ELSE IF data[accounts[1]].kind # "User"
    THEN RushResult("InvalidAccountData", data, Uninit)
    ELSE RushResult("Ok", data, data[accounts[1]])

\* spins of the User data an account handed in may hold
StoredSpins == {0, 10}

\* the accounts handed to the program are not checked for their owner: each
\* holds nothing, or data that deserializes as a User
InitRush ==
    /\ in_flight = [u \in UserAccounts |-> Idle]
    /\ moved_in = 0
    /\ serial = TRUE
    /\ loop_data = [a \in LoopAccounts |-> Uninit]
    /\ loop_ret = NoRet
    /\ variant = "rush"
    /\ overflow_checks \in BOOLEAN
    /\ u64_mod = ArithMod
    /\ now = 0
    /\ pool_data = [a \in PoolAccounts |-> Uninit]
    /\ user_data = [a \in UserAccounts |-> Uninit]
    /\ pool_list = Uninit
    /\ \E stored \in [RushAccounts -> {Uninit} \cup (StoredSpins \X (0 .. MaxTime))] :
           rush_data = [a \in RushAccounts |->
                           IF stored[a] = Uninit THEN Uninit
                           ELSE User(a, stored[a][1], stored[a][2])]

\* the account lists a rush instruction is handed: none, or one account
RushAccountLists == {<< >>} \cup {<<a>> : a \in RushAccounts}

\* the accounts hold what a handler that returned r left in them
RushCommit(r) ==
    /\ rush_data' = r.data
    /\ UNCHANGED <<variant, overflow_checks, u64_mod, now, pool_programs, loop_data, loop_ret>>

CreateUser == \E accounts \in RushAccountLists : RushCommit(create_user(rush_data, accounts))

Start == \E accounts \in RushAccountLists : RushCommit(start(rush_data, accounts, now))

EndGame == \E accounts \in RushAccountLists : RushCommit(end_game(rush_data, accounts, now))

GetUser == \E accounts \in RushAccountLists : RushCommit(get_user(rush_data, accounts))

NextRush == Tick \/ CreateUser \/ Start \/ EndGame \/ GetUser

SpecRush == InitRush /\ [][NextRush]_vars

\* ============================================================== properties
\* the Deposits records account u holds in state s
DepositsOf(s, u) ==
    IF s.user_data[u].kind = "Deposits" THEN <<s.user_data[u]>>
    ELSE IF s.user_data[u].kind = "UserDepositList" THEN s.user_data[u].deposits
    ELSE << >>

RECURSIVE SumAmounts(_)
SumAmounts(ds) ==
    IF ds = << >> THEN 0 ELSE Head(ds).deposited_amount + SumAmounts(Tail(ds))

\* the sum of deposited_amount over the Active Deposits made into pool p
ActivePrincipal(s, p) ==
    LET active(u) == SelectSeq(DepositsOf(s, u),
                               LAMBDA d : d.pool_pubkey = p /\ d.status = "Active")
    IN SumAmounts(active("u1") \o active("u2"))

\* every Pool's tvl is its total_unit and the Active principal put into it
LedgerEquals(s) ==
    \A p \in PoolAccounts :
        s.pool_data[p].kind = "Pool" =>
            /\ s.pool_data[p].tvl = s.pool_data[p].total_unit
            /\ s.pool_data[p].tvl = ActivePrincipal(s, p)

\* the call left every persisted record as state s had it
SameRecords(s, r) ==
    /\ r.pool_data = s.pool_data
    /\ r.user_data = s.user_data
    /\ r.pool_list = s.pool_list

\* C1: each Pool's tvl equals its total_unit and equals the sum of
\* deposited_amount over the Active Deposits made into it, after every
\* deposit and every withdraw made in a state where that is so.
C1_LedgerEqualsActiveDeposits ==
    LedgerEquals(Here) =>
        /\ \A c \in DepositCalls : LedgerEquals(After(Here, deposit(Here, c)))
        /\ \A c \in WithdrawCalls : LedgerEquals(After(Here, withdraw(Here, c)))

\* C2: in every reachable state, each Pool written by create_pool and
\* updated by deposit and withdraw has tvl equal to total_unit.
C2_TvlEqualsTotalUnit ==
    \A p \in PoolAccounts :
        pool_data[p].kind = "Pool" => pool_data[p].tvl = pool_data[p].total_unit

\* a Pool that deposits raised and a withdrawal lowered: it still holds
\* value, and less than one depositor's stored deposited_amount
C2_Witness ==
    \E p \in PoolAccounts, u \in UserAccounts :
        /\ pool_data[p].kind = "Pool"
        /\ pool_data[p].tvl > 0
        /\ user_data[u].kind = "Deposits"
        /\ user_data[u].pool_pubkey = p
        /\ user_data[u].deposited_amount > pool_data[p].tvl

\* the states withdraw_rewards is tried in: the state now, and for the
\* yield program the state now with a reward accrued to a stored Deposits
RewardStates ==
    {Here} \cup
    {[Here EXCEPT !.user_data[u].reward = 1] :
        u \in {v \in UserAccounts : user_data[v].kind = "Deposits"
                                    /\ variant = "yield"}}

\* C3: in deposit, withdraw and withdraw_rewards a record is written only
\* after invoke has returned Ok, and when invoke fails the handler returns
\* the gateway's error with every Pool, Deposits and PoolList unchanged.
C3_GatewayBeforeWrites ==
    LET Holds(s, r) ==
            /\ (r.invoked /\ ~r.moved) => (r.err = "GatewayError" /\ SameRecords(s, r))
            /\ ~SameRecords(s, r) => (r.invoked /\ r.moved)
    IN /\ \A c \in DepositCalls : Holds(Here, deposit(Here, c))
       /\ \A c \in WithdrawCalls : Holds(Here, withdraw(Here, c))
       /\ variant = "yield" =>
              \A s \in RewardStates, c \in RewardCalls : Holds(s, claim_reward(s, c))

\* the gateway fails a deposit, a withdraw and, in the yield program, a
\* withdraw_rewards that each got as far as invoke
C3_Witness ==
    /\ \E c \in DepositCalls : deposit(Here, c).err = "GatewayError"
    /\ \E c \in WithdrawCalls : withdraw(Here, c).err = "GatewayError"
    /\ variant = "yield" =>
           \E s \in RewardStates, c \in RewardCalls :
               claim_reward(s, c).err = "GatewayError"

StoredDeposit(s, c) ==
    IF variant = "multi"
    THEN LET deposits == UserDepositList_or_new(s, c.user_account)
             at == IF c.payload.kind = "Malformed" THEN 0
                   ELSE find_deposit(deposits, c.payload.pool_id)
         IN IF at = 0 THEN Uninit ELSE deposits[at]
    ELSE IF s.user_data[c.user_account].kind = "Deposits"
         THEN s.user_data[c.user_account] ELSE Uninit

\* call c names enough accounts, a signing caller and a pool account of the
\* program, and carries a payload the handler decodes
WellFormed(c, opcode) ==
    /\ c.enough
    /\ c.is_signer
    /\ c.pool_account \in ProgramOwned
    /\ IF variant = "multi" THEN c.payload.kind # "Malformed"
       ELSE Len(Dispatched(opcode, c.payload)) >= U64Bytes

\* the amount deposit decodes from a well-formed call
DecodedAmount(c) ==
    IF variant = "multi" THEN c.payload.amount
    ELSE from_le_bytes(Slice(Dispatched(1, c.payload), 0, U64Bytes))

\* C5: a deposit whose amount would carry the Pool's tvl, or the caller's
\* stored deposited_amount, past the largest u64 fails with the checked
\* addition's error, changes no record, and no value is moved by invoke.
C5_OverflowLeavesNoTrace ==
    \A c \in DepositCalls :
        LET r == deposit(Here, c)
            pool == pool_data[c.pool_account]
            stored == StoredDeposit(Here, c)
            principal == IF stored.kind = "Deposits" THEN stored.deposited_amount
                         ELSE 0
        IN (/\ WellFormed(c, 1)
            /\ c.gateway_ok
            /\ r.invoked
            /\ pool.kind = "Pool"
            /\ \/ pool.tvl + DecodedAmount(c) > U64Max
               \/ principal + DecodedAmount(c) > U64Max)
           => /\ r.err = "InvalidAccountData"
              /\ SameRecords(Here, r)
              /\ ~r.moved

\* the calls a round trip is made of: accounts, signature and gateway in order
GoodCalls(calls, opcode) ==
    {c \in calls : WellFormed(c, opcode) /\ c.gateway_ok}

\* what deposit c1 returns now
RoundTripDeposit(c1) == deposit(Here, c1)

\* what withdraw c2 returns at time t in the state deposit c1 leaves
RoundTripWithdraw(c1, t, c2) ==
    withdraw([After(Here, RoundTripDeposit(c1)) EXCEPT !.now = t], c2)

\* a successful deposit of a positive amount and, with nothing between but
\* the clock, a successful withdraw by the same caller from the same pool
RoundTrips ==
    {x \in GoodCalls(DepositCalls, 1) \X (now .. MaxTime)
            \X GoodCalls(WithdrawCalls, 2) :
        /\ x[3].user_account = x[1].user_account
        /\ x[3].pool_account = x[1].pool_account
        /\ variant = "multi" => x[3].payload.pool_id = x[1].payload.pool_id
        /\ RoundTripDeposit(x[1]).err = "Ok"
        /\ RoundTripDeposit(x[1]).amount > 0
        /\ RoundTripWithdraw(x[1], x[2], x[3]).err = "Ok"}

\* the round trip x leaves the pool's tvl and total_unit as they are now
Restored(x) ==
    LET p == x[1].pool_account
        after == RoundTripWithdraw(x[1], x[2], x[3]).pool_data[p]
    IN /\ after.tvl = pool_data[p].tvl
       /\ after.total_unit = pool_data[p].total_unit

C7_LockupBoundary ==
    \A c \in WithdrawCalls :
        LET r == withdraw(Here, c)
            pool == pool_data[c.pool_account]
            stored == StoredDeposit(Here, c)
        IN (/\ WellFormed(c, 2)
            /\ pool.kind = "Pool"
            /\ stored.kind = "Deposits"
            /\ stored.deposited_amount > 0)
           => /\ now < stored.start_date + pool.min_period
                 => (r.err = "Custom1" /\ ~r.invoked /\ SameRecords(Here, r))
              /\ (/\ now = stored.start_date + pool.min_period
                  /\ c.gateway_ok
                  /\ stored.deposited_amount <= pool.tvl)
                 => r.err = "Ok"

\* C8: after a successful withdraw the caller's persisted Deposits has
\* deposited_amount 0 and status Withdrawn.
C8_WithdrawClosesDeposit ==
    \A c \in WithdrawCalls :
        LET r == withdraw(Here, c)
            stored == StoredDeposit(After(Here, r), c)
        IN r.err = "Ok"
           => /\ stored.kind = "Deposits"
              /\ stored.deposited_amount = 0
              /\ stored.status = "Withdrawn"

\* C9: a withdraw by a caller who has no stored Deposits, or one whose
\* deposited_amount is 0, fails with the not-found state error, calls no
\* transfer and changes no record, in each of the three programs.
C9_NoDepositNoWithdraw ==
    \A c \in WithdrawCalls :
        LET r == withdraw(Here, c)
            stored == StoredDeposit(Here, c)
        IN (/\ WellFormed(c, 2)
            /\ pool_data[c.pool_account].kind = "Pool"
            /\ \/ stored.kind # "Deposits"
               \/ stored.deposited_amount = 0)
           => /\ r.err \in {"InvalidAccountData", "BorshIoError"}
              /\ ~r.invoked
              /\ SameRecords(Here, r)

\* call c of deposit with its amount made 1 (the single and yield programs
\* decode no amount of 0 from what process_instruction hands them)
NonZero(c) ==
    IF variant = "multi" THEN [c EXCEPT !.payload.amount = 1] ELSE c

\* C10: a deposit that would go through with a positive amount is rejected
\* with a validation error, before invoke is called, when its amount is 0,
\* and no stored Deposits is Active with deposited_amount 0.
C10_ZeroDepositRejected ==
    /\ \A c \in DepositCalls :
           LET r == deposit(Here, c)
           IN (/\ WellFormed(c, 1)
               /\ DecodedAmount(c) = 0
               /\ deposit(Here, NonZero(c)).invoked)
              => /\ r.err = "InvalidInstructionData"
                 /\ ~r.invoked
                 /\ SameRecords(Here, r)
    /\ \A u \in UserAccounts :
           \A i \in 1 .. Len(DepositsOf(Here, u)) :
               ~ /\ DepositsOf(Here, u)[i].deposited_amount = 0
                 /\ DepositsOf(Here, u)[i].status = "Active"

\* a successful withdraw_rewards c1 in a state of RewardStates, and a second
\* one for the same accounts in the state the first leaves
RepeatedClaims ==
    {x \in RewardStates \X RewardCalls \X RewardCalls :
        /\ variant = "yield"
        /\ x[3].enough
        /\ x[3].pool_account = x[2].pool_account
        /\ x[3].user_account = x[2].user_account
        /\ claim_reward(x[1], x[2]).err = "Ok"}

\* C11: a withdraw_rewards that follows a successful one for the same
\* Deposits, with no time elapsed and nothing between, fails with
\* Custom(0), calls no transfer and changes no record.
C11_SecondClaimHasNoRewards ==
    \A x \in RepeatedClaims :
        LET s1 == After(x[1], claim_reward(x[1], x[2]))
            r2 == claim_reward(s1, x[3])
        IN /\ r2.err = "Custom0"
           /\ ~r2.invoked
           /\ SameRecords(s1, r2)

\* a withdraw_rewards succeeds, so that a second one can follow it
C11_Witness ==
    RepeatedClaims # {}

\* C12: after N successful create_pool calls of the multi program,
\* whatever pool accounts the callers named, get_all_pools handed every
\* pool account returns exactly N Pool records, the i-th with pool_id i.
\* (The registry starts empty and only create_pool appends to it, so N is
\* the length of its pools.)
C12_ListPoolsReturnsCreated ==
    variant = "multi" /\ pool_list.kind = "PoolList" =>
        LET all == get_all_pools_multi(Here, TRUE, PoolAccounts, TRUE)
        IN /\ all.err = "Ok"
           /\ Len(all.value) = Len(pool_list.pools)
           /\ \A i \in 1 .. Len(all.value) : all.value[i].pool_id = i

\* the caller of create_pool call c is on the stored allow-list and signed
SigningAdmin(c) ==
    /\ c.owner_key \in PoolList_multi_or_new(Here).admin_list
    /\ c.is_signer

\* C13 (calls): create_pool of the multi program succeeds only for a
\* signing caller on the registry's allow-list; any other caller's call
\* fails and leaves the registry and every Pool as they were, with
\* MissingRequiredSignature when its accounts and PoolParam are well-formed.
C13_OnlySigningAdminCreates ==
    variant = "multi" =>
        \A c \in CreateCallsMulti :
            LET r == create_pool(Here, c)
            IN /\ r.err = "Ok" => SigningAdmin(c)
               /\ ~SigningAdmin(c) => r.err # "Ok" /\ SameRecords(Here, r)
               /\ ~SigningAdmin(c) /\ c.enough /\ c.payload.kind = "PoolParam"
                      => r.err = "MissingRequiredSignature"

\* C13 (steps): the registry of the multi program changes only by a
\* create_pool call of a signing admin, so every id in it was created by one.
C13_RegistryGrowsByAdminOnly ==
    [][variant = "multi" /\ pool_list' # pool_list =>
          \E c \in CreateCallsMulti :
              /\ SigningAdmin(c)
              /\ pool_list' = create_pool(Here, c).pool_list]_vars

\* C13: create_pool in the multi-pool program succeeds only if the caller's
\* key is in the registry's admin allow-list and the caller signed;
\* otherwise it fails with MissingRequiredSignature and neither the registry
\* nor any Pool record changes; hence every id in the registry was created
\* by a signing admin.
C13_CreatePoolNeedsSigningAdmin ==
    []C13_OnlySigningAdminCreates /\ C13_RegistryGrowsByAdminOnly

\* a caller off the allow-list and a non-signing admin are both turned away
\* with a well-formed call, and the registry holds a pool a signing admin made
C13_Witness ==
    /\ variant = "multi"
    /\ pool_list.kind = "PoolList" /\ Len(pool_list.pools) > 0
    /\ \E c \in CreateCallsMulti :
           /\ c.enough /\ c.payload.kind = "PoolParam"
           /\ c.owner_key \notin pool_list.admin_list /\ c.is_signer
           /\ create_pool(Here, c).err = "MissingRequiredSignature"
    /\ \E c \in CreateCallsMulti :
           /\ c.enough /\ c.payload.kind = "PoolParam"
           /\ c.owner_key \in pool_list.admin_list /\ ~c.is_signer
           /\ create_pool(Here, c).err = "MissingRequiredSignature"

\* C14: a query (get_pool, get_pool_by_id, get_pool_tvl, get_all_pools,
\* get_user_deposit) leaves every Pool, Deposits and registry record as it
\* found it, whether it succeeds or fails, and the same query called again
\* in the state it leaves returns what it returned the first time.
C14_QueriesChangeNothing ==
    \A s \in RewardStates :
        \A q \in {x \in QueryCalls : x.query \in QueriesOf(variant)} :
            LET first == query(s, q)
                again == query(After(s, first), q)
            IN /\ SameRecords(s, first)
               /\ again.err = first.err
               /\ first.err = "Ok" => again.value = first.value

\* every query of the program succeeds on some call in this state
C14_Witness ==
    \A n \in QueriesOf(variant) :
        \E q \in QueryCalls : q.query = n /\ query(Here, q).err = "Ok"

\* the status of a stored Deposits, "absent" where there is none
StatusOf(record) ==
    IF record.kind = "Deposits" THEN record.status ELSE "absent"

\* C17: the status of a caller's stored Deposits moves only absent -> Active
\* on a first successful deposit, stays as it is on a successful top-up
\* (Active -> Active; Withdrawn stays Withdrawn), moves Active -> Withdrawn
\* on a successful withdraw, and is not changed by withdraw_rewards.
C17_StatusTransitions ==
    /\ \A c \in DepositCalls :
           LET r == deposit(Here, c)
               before == StatusOf(StoredDeposit(Here, c))
               after == StatusOf(StoredDeposit(After(Here, r), c))
           IN r.err = "Ok"
              => after = (IF before = "absent" THEN "Active" ELSE before)
    /\ \A c \in WithdrawCalls :
           LET r == withdraw(Here, c)
               before == StatusOf(StoredDeposit(Here, c))
               after == StatusOf(StoredDeposit(After(Here, r), c))
           IN r.err = "Ok" /\ before = "Active" => after = "Withdrawn"
    /\ \A s \in RewardStates :
           \A c \in RewardCalls :
               LET r == claim_reward(s, c)
               IN variant = "yield"
                  => StatusOf(After(s, r).user_data[c.user_account])
                         = StatusOf(s.user_data[c.user_account])

UserDepositQuery(c) ==
    [query |-> "get_user_deposit", pool_account |-> c.pool_account,
     user_account |-> c.user_account, enough |-> TRUE, list_owned |-> TRUE,
     payload |-> IF variant = "multi"
                 THEN [kind |-> "QueryParam", pool_id |-> c.payload.pool_id]
                 ELSE Malformed,
     rest |-> PoolAccounts]

\* C19: after a successful deposit, get_user_deposit for that user and pool
\* succeeds and returns a Deposits whose deposited_amount is the one stored
\* before (0 if none) plus the amount deposited, in each of the three
\* programs.
C19_DepositIsPersisted ==
    \A c \in DepositCalls :
        LET r == deposit(Here, c)
            before == StoredDeposit(Here, c)
            previous == IF before.kind = "Deposits"
                        THEN before.deposited_amount ELSE 0
            got == query(After(Here, r), UserDepositQuery(c))
        IN r.err = "Ok"
           => /\ got.err = "Ok"
              /\ got.value.deposited_amount = previous + r.amount

\* C15: after every successful deposit, new or top-up, the stored
\* daily_payout is floor(floor(principal * apy / 100) / 365) of the stored
\* (resulting) deposited_amount and the Pool's apy.
C15_StoredDailyPayout ==
    \A u \in UserAccounts, a \in DepositInputs :
        LET r == deposit_book(Here, "p1", u, a)
            stored == r.user_data[u]
        IN r.err = "Ok"
           => stored.daily_payout
                  = ((stored.deposited_amount * pool_data["p1"].apy) \div 100)
                        \div 365

\* the time rewards of stored Deposits d run from: the last claim, or
\* start_date when there was none
RewardsSince(d) ==
    IF d.last_reward_claim_time # 0 THEN d.last_reward_claim_time
    ELSE d.start_date

\* C16: a successful withdraw_rewards at time now transfers
\* floor(floor(A * apy / 100) / 365) * elapsed_days + A, with elapsed_days =
\* floor((now - (last_reward_claim_time if non-zero, else start_date)) / 86400)
\* and A = daily_payout * elapsed_days.
C16_RewardPayout ==
    \A u \in UserAccounts :
        LET r == withdraw_rewards(Here, "p1", u, TRUE, TRUE)
            d == user_data[u]
            elapsed_days == (now - RewardsSince(d)) \div 86400
            A == d.daily_payout * elapsed_days
        IN variant = "yield" /\ r.err = "Ok"
           => r.amount
                  = (((A * pool_data["p1"].apy) \div 100) \div 365) * elapsed_days
                        + A

\* C20: a successful top-up of the yield program adds to the stored reward
\* base_reward + compound_reward, where elapsed_days = floor((now - (last
\* claim time, or the start_date stored before the deposit)) / 86400),
\* base_reward = (daily_payout stored before the deposit) * elapsed_days and
\* compound_reward = floor(floor(reward * apy / 100) / 365) * elapsed_days
\* when the stored reward is above 0, else 0.
C20_TopUpFoldsReward ==
    \A u \in UserAccounts, a \in DepositInputs :
        LET r == deposit_book(Here, "p1", u, a)
            d == user_data[u]
            elapsed_days == (now - RewardsSince(d)) \div 86400
            base_reward == d.daily_payout * elapsed_days
            compound_reward ==
                IF d.reward > 0
                THEN (((d.reward * pool_data["p1"].apy) \div 100) \div 365)
                         * elapsed_days
                ELSE 0
        IN variant = "yield" /\ d.kind = "Deposits" /\ r.err = "Ok"
           => r.user_data[u].reward = d.reward + base_reward + compound_reward

\* the withdraw calls by the user of deposit call c1 on the pool of c1
WithdrawsOf(c1) ==
    {c2 \in GoodCalls(WithdrawCalls, 2) :
        /\ c2.user_account = c1.user_account
        /\ c2.pool_account = c1.pool_account
        /\ variant = "multi" => c2.payload.pool_id = c1.payload.pool_id}

\* C21: a successful top-up at time now stores deposited_amount = the old
\* one plus the amount, daily_payout recomputed from that sum, and
\* start_date = now; and every withdraw of it at a time t from now on with
\* t < now + min_period fails with Custom(1), whatever the start_date was
\* before.
C21_TopUpRestartsLockup ==
    \A c1 \in GoodCalls(DepositCalls, 1) :
        LET before == StoredDeposit(Here, c1)
            r1 == deposit(Here, c1)
            s1 == After(Here, r1)
            after == StoredDeposit(s1, c1)
            pool == pool_data[c1.pool_account]
        IN before.kind = "Deposits" /\ r1.err = "Ok"
           => /\ after.deposited_amount = before.deposited_amount + r1.amount
              /\ after.daily_payout
                     = ((after.deposited_amount * pool.apy) \div 100) \div 365
              /\ after.start_date = now
              /\ \A c2 \in WithdrawsOf(c1), t \in now .. MaxTime :
                     t < now + pool.min_period
                         => withdraw([s1 EXCEPT !.now = t], c2).err = "Custom1"

\* the caller of deposit call c holds no stored Deposits for the pool of c
NoDepositFor(s, c) ==
    LET stored == StoredDeposit(s, c)
    IN stored.kind # "Deposits" \/ stored.pool_pubkey # c.pool_account

\* C22: when the caller holds no stored Deposits for the pool, a successful
\* deposit stores one with deposited_amount = the amount, status Active,
\* start_date = now, user_pubkey the caller's account and pool_pubkey the
\* pool account deposited into (and last_reward_claim_time 0 and reward 0
\* in the yield program).
C22_FirstDepositCreatesRecord ==
    \A c \in DepositCalls :
        LET r == deposit(Here, c)
            after == StoredDeposit(After(Here, r), c)
        IN NoDepositFor(Here, c) /\ r.err = "Ok"
           => /\ after.kind = "Deposits"
              /\ after.deposited_amount = r.amount
              /\ after.status = "Active"
              /\ after.start_date = now
              /\ after.user_pubkey = c.user_account
              /\ after.pool_pubkey = c.pool_account
              /\ variant = "yield"
                     => after.last_reward_claim_time = 0 /\ after.reward = 0

\* C23: in the single and multi programs a withdraw of more than the
\* Pool's tvl fails with InsufficientFunds before invoke is called, so no
\* transfer is asked for an amount above tvl; in the yield program the
\* InsufficientFunds return comes after invoke.
C23_InsufficientFundsOrder ==
    \A c \in WithdrawCalls :
        LET r == withdraw(Here, c)
            pool == pool_data[c.pool_account]
        IN /\ r.err = "InsufficientFunds"
                  => (r.invoked <=> variant = "yield")
           /\ variant # "yield" /\ r.invoked /\ pool.kind = "Pool"
                  => r.amount <= pool.tvl

\* the amount:u64 the payload of withdraw call c carries in the single and
\* yield programs
PayloadAmount(c) ==
    from_le_bytes(Slice(Dispatched(2, c.payload), 0, U64Bytes))

\* C24: a successful withdraw asks the gateway for the caller's stored
\* deposited_amount and subtracts that amount from the Pool's tvl and
\* total_unit, whatever amount the payload carries: the same call with
\* another payload amount does the same.
C24_WithdrawsWholePrincipal ==
    \A c \in WithdrawCalls :
        LET r == withdraw(Here, c)
            stored == StoredDeposit(Here, c)
            pool == pool_data[c.pool_account]
        IN r.err = "Ok"
           => /\ r.moved
              /\ r.amount = stored.deposited_amount
              /\ r.pool_data[c.pool_account].tvl
                     = pool.tvl - stored.deposited_amount
              /\ r.pool_data[c.pool_account].total_unit
                     = pool.total_unit - stored.deposited_amount
              /\ variant # "multi"
                     => \A other \in AmountPayloads :
                            Len(Dispatched(2, other)) >= U64Bytes
                                => withdraw(Here, [c EXCEPT !.payload = other]) = r

\* a withdraw succeeds whose payload carries another amount than the
\* stored deposited_amount
C24_Witness ==
    /\ variant # "multi"
    /\ \E c \in WithdrawCalls :
           /\ withdraw(Here, c).err = "Ok"
           /\ PayloadAmount(c) # StoredDeposit(Here, c).deposited_amount

\* C25: a successful withdraw_rewards stores reward = 0 and
\* last_reward_claim_time = now in the caller's Deposits and changes
\* nothing else: every Pool, and the deposited_amount, status, daily_payout
\* and start_date of the Deposits, are as before.
C25_ClaimResetsRewardOnly ==
    \A u \in UserAccounts, gateway_ok \in BOOLEAN :
        LET r == withdraw_rewards(Here, "p1", u, TRUE, gateway_ok)
        IN variant = "yield" /\ r.err = "Ok"
           => /\ r.pool_data = pool_data
              /\ r.pool_list = pool_list
              /\ r.user_data =
                     [user_data EXCEPT ![u] =
                         [@ EXCEPT !.reward = 0, !.last_reward_claim_time = now]]

\* a withdraw_rewards that pays out succeeds at a time after the last claim
C25_Witness ==
    /\ variant = "yield"
    /\ \E u \in UserAccounts :
           LET r == withdraw_rewards(Here, "p1", u, TRUE, TRUE)
           IN /\ r.err = "Ok" /\ r.amount > 0
              /\ now > user_data[u].last_reward_claim_time
              /\ user_data[u].last_reward_claim_time > 0

\* C26: claim_reward overwrites the stored reward: two states that differ only
\* in the stored non-zero reward of the claimed Deposits give, at the same
\* now, the same outcome and transfer the same amount, and leave the same
\* records behind.
OtherRewards == {1, 50, 51}

C26_StoredRewardDoesNotChangePayout ==
    \A u \in UserAccounts, other \in OtherRewards, gateway_ok \in BOOLEAN :
        LET twin == [Here EXCEPT !.user_data[u].reward = other]
            r1 == withdraw_rewards(Here, "p1", u, TRUE, gateway_ok)
            r2 == withdraw_rewards(twin, "p1", u, TRUE, gateway_ok)
        IN variant = "yield" /\ user_data[u].kind = "Deposits"
           /\ user_data[u].reward # 0
           => /\ r1.err = r2.err
              /\ r1.amount = r2.amount
              /\ r1.invoked = r2.invoked
              /\ r1.err = "Ok" => r1.user_data = r2.user_data

C26_Witness ==
    /\ variant = "yield"
    /\ \E u \in UserAccounts :
           LET r == withdraw_rewards(Here, "p1", u, TRUE, TRUE)
           IN /\ user_data[u].kind = "Deposits"
              /\ user_data[u].reward # 0
              /\ r.err = "Ok" /\ r.amount > 0

\* the enum codes a caller may put into a create_pool payload
EnumCodes == 0 .. 3

\* the create_pool payload of the single and yield programs with an empty
\* name, laid out as the handler indexes it: pool_name_len, asset type code,
\* apy, min_period, base_value
CreatePayloadOf(asset_kind, apy, min_period) ==
    <<0, asset_kind>> \o to_le_bytes(apy) \o to_le_bytes(min_period)
        \o to_le_bytes(0)

\* create_pool calls by a signing admin with a well-formed payload that
\* carries the codes risk_tier and asset_kind (the single and yield payload
\* has no risk code)
CreateCallsWith(risk_tier, asset_kind) ==
    IF variant = "multi"
    THEN {c \in CreateCallsMulti :
             /\ WellFormed(c, 0) /\ SigningAdmin(c)
             /\ c.payload.risk_type = risk_tier
             /\ c.payload.asset_type = asset_kind}
    ELSE {[c EXCEPT !.payload = CreatePayloadOf(asset_kind, apy, mp)] :
             c \in {x \in CreateCallsSingle : WellFormed(x, 0)},
             apy \in ApyValues, mp \in MinPeriods}

\* C27: create_pool with an unknown risk_tier or asset_kind code fails with
\* InvalidInstructionData and writes no Pool and no registry entry; with
\* known codes it succeeds and the Pool it stores carries the risk tier and
\* the asset kind the codes denote.
C27_EnumCodesValidated ==
    \A risk_tier \in EnumCodes, asset_kind \in EnumCodes :
        \A c \in CreateCallsWith(risk_tier, asset_kind) :
            LET r == create_pool(Here, c)
                known == /\ asset_kind \in 0 .. 2
                         /\ variant = "multi" => risk_tier \in 0 .. 2
            IN /\ ~known => r.err = "InvalidInstructionData" /\ SameRecords(Here, r)
               /\ known =>
                    /\ r.err = "Ok"
                    /\ r.pool_data[c.pool_account].asset_type
                           = AssetType_from_u8(asset_kind)
                    /\ variant = "multi" =>
                           r.pool_data[c.pool_account].risk_type
                               = RiskType_from_u8(risk_tier)

\* C27 for the multi program alone
C27_EnumCodesValidatedMulti == variant = "multi" => C27_EnumCodesValidated

\* a single or yield create_pool whose payload names Runes stores a BTC
\* Pool, and one whose payload carries the unknown code 3 succeeds
C27_CodeNotRead ==
    variant # "multi" =>
        \A c \in CreateCallsWith(0, 1) \cup CreateCallsWith(0, 3) :
            LET r == create_pool(Here, c)
            IN r.err = "Ok" /\ r.pool_data[c.pool_account].asset_type = "BTC"

\* the pairs of pool_id_to_pubkey whose id is pool_id
IndexEntries(list, pool_id) ==
    {i \in 1 .. Len(list.pool_id_to_pubkey) :
        list.pool_id_to_pubkey[i][1] = pool_id}

\* pools and pool_id_to_pubkey have the same length and every id of pools
\* has exactly one pair
ListAndIndexAgree(list) ==
    /\ Len(list.pools) = Len(list.pool_id_to_pubkey)
    /\ \A i \in 1 .. Len(list.pools) :
           Cardinality(IndexEntries(list, list.pools[i])) = 1

\* pairs with distinct ids name distinct accounts
DistinctLocations(list) ==
    \A i, j \in 1 .. Len(list.pool_id_to_pubkey) :
        list.pool_id_to_pubkey[i][1] # list.pool_id_to_pubkey[j][1]
            => list.pool_id_to_pubkey[i][2] # list.pool_id_to_pubkey[j][2]

\* a successful create_pool appends one id to pools and one pair, of that id
\* and the pool account, to pool_id_to_pubkey
CreateAppendsOne ==
    \A c \in CreateCallsMulti :
        LET r == create_pool(Here, c)
            list == PoolList_multi_or_new(Here)
        IN r.err = "Ok" =>
              \E pool_id \in 1 .. MaxPools + 1 :
                 /\ r.pool_list.pools = Append(list.pools, pool_id)
                 /\ r.pool_list.pool_id_to_pubkey
                        = Append(list.pool_id_to_pubkey,
                                 <<pool_id, c.pool_account>>)

\* C28: in every registry the multi program reaches, the id list and the
\* id -> account index have the same length, every listed id has exactly
\* one index pair, distinct ids are indexed to distinct accounts, and a
\* successful create_pool appends exactly one id and one pair.
C28_ListAndIndexAgree ==
    variant = "multi" =>
        /\ pool_list.kind = "PoolList" =>
              ListAndIndexAgree(pool_list) /\ DistinctLocations(pool_list)
        /\ CreateAppendsOne

\* C28 without the distinct accounts
C28_ListAndIndexSameIds ==
    variant = "multi" =>
        /\ pool_list.kind = "PoolList" => ListAndIndexAgree(pool_list)
        /\ CreateAppendsOne

\* the error codes of a lookup that finds no record: the id has no index
\* pair, the indexed account was not handed in, or it holds no Pool
LookupErrors == {"InvalidArgument", "InvalidAccountData", "BorshIoError"}

\* pool_id is indexed to an account among rest that holds a Pool
Resolves(pool_id, rest) ==
    LET pool_pubkey == find_pubkey(pool_list.pool_id_to_pubkey, pool_id)
    IN /\ pool_pubkey # "None"
       /\ pool_pubkey \in rest
       /\ pool_data[pool_pubkey].kind = "Pool"

\* C29: over a stored registry, get_all_pools fails with a lookup error and
\* returns no list when some listed id does not resolve to a Pool among the
\* accounts handed in, and returns one Pool per listed id when all resolve;
\* get_pool_by_id fails with a lookup error when its id does not resolve and
\* returns the indexed account's Pool when it does.
C29_LookupFailsOrSucceeds ==
    variant = "multi" /\ pool_list.kind = "PoolList" =>
        \A rest \in SUBSET PoolAccounts :
            /\ LET all == get_all_pools_multi(Here, TRUE, rest, TRUE)
                   ids == pool_list.pools
               IN IF \A i \in 1 .. Len(ids) : Resolves(ids[i], rest)
                  THEN /\ all.err = "Ok"
                       /\ Len(all.value) = Len(ids)
                       /\ \A i \in 1 .. Len(ids) :
                              all.value[i] = pool_data[find_pubkey(
                                  pool_list.pool_id_to_pubkey, ids[i])]
                  ELSE all.err \in LookupErrors /\ all.value = NoValue
            /\ \A pool_id \in PoolIds \cup {MaxPools + 1} :
                   LET one == get_pool_by_id(Here, rest, TRUE,
                                  [kind |-> "QueryParam", pool_id |-> pool_id])
                   IN IF Resolves(pool_id, rest)
                      THEN /\ one.err = "Ok"
                           /\ one.value = pool_data[find_pubkey(
                                  pool_list.pool_id_to_pubkey, pool_id)]
                      ELSE one.err \in LookupErrors /\ one.value = NoValue

\* two pools are registered at two accounts: with one of them handed in
\* get_all_pools fails and get_pool_by_id answers for that one only
C29_Witness ==
    /\ variant = "multi" /\ pool_list.kind = "PoolList"
    /\ Len(pool_list.pools) = 2
    /\ Resolves(1, {"p1"}) /\ ~Resolves(2, {"p1"}) /\ Resolves(2, PoolAccounts)
    /\ get_all_pools_multi(Here, TRUE, {"p1"}, TRUE).err = "InvalidAccountData"
    /\ get_all_pools_multi(Here, TRUE, PoolAccounts, TRUE).err = "Ok"
    /\ get_pool_by_id(Here, {"p1"}, TRUE,
                      [kind |-> "QueryParam", pool_id |-> 1]).err = "Ok"
    /\ get_pool_by_id(Here, {"p1"}, TRUE,
                      [kind |-> "QueryParam", pool_id |-> 2]).err
           = "InvalidAccountData"
    /\ get_pool_by_id(Here, PoolAccounts, TRUE,
                      [kind |-> "QueryParam", pool_id |-> 0]).err
           = "InvalidArgument"

\* the amount:u64 field of the payload that follows the opcode byte of
\* deposit call c
AmountField(c) ==
    IF variant = "multi" THEN c.payload.amount ELSE from_le_bytes(c.payload)

\* deposit calls whose payload carries a whole amount field
AmountFieldCalls ==
    {c \in GoodCalls(DepositCalls, 1) :
        variant # "multi" => Len(c.payload) = U64Bytes}

\* the amount deposit asks the gateway for, and on success adds to the
\* Pool's tvl and total_unit, is the payload's amount field
DepositAppliesAmountField ==
    \A c \in AmountFieldCalls :
        LET r == deposit(Here, c)
            before == pool_data[c.pool_account]
            after == r.pool_data[c.pool_account]
        IN /\ r.invoked => r.amount = AmountField(c)
           /\ r.err = "Ok" =>
                 /\ after.tvl = before.tvl + AmountField(c)
                 /\ after.total_unit = before.total_unit + AmountField(c)

\* the Pool a successful create_pool stores carries the payload's asset
\* type, apy and min_period
CreateStoresPayloadFields ==
    \A asset_kind \in 0 .. 2, risk_tier \in 0 .. 2 :
        \A c \in CreateCallsWith(risk_tier, asset_kind) :
            LET r == create_pool(Here, c)
                pool == r.pool_data[c.pool_account]
                apy == IF variant = "multi" THEN c.payload.apy
                       ELSE from_le_bytes(Slice(c.payload, 2, 2 + U64Bytes))
                min_period ==
                    IF variant = "multi" THEN c.payload.min_period
                    ELSE from_le_bytes(Slice(c.payload, 2 + U64Bytes,
                                             2 + 2 * U64Bytes))
            IN r.err = "Ok" =>
                  /\ pool.asset_type = AssetType_from_u8(asset_kind)
                  /\ pool.apy = apy
                  /\ pool.min_period = min_period

\* C30: in each program, reached through process_instruction, the amount
\* deposit sends to the gateway and adds to the Pool is the amount field of
\* the payload after the opcode byte, and the Pool create_pool stores
\* carries the payload's asset type, apy and min_period.
C30_PayloadFieldsApplied ==
    DepositAppliesAmountField /\ CreateStoresPayloadFields

\* C30 for the multi program alone
C30_PayloadFieldsAppliedMulti == variant = "multi" => C30_PayloadFieldsApplied

\* the single and yield programs ask the gateway for the opcode byte 1 plus
\* the low bytes of the amount field shifted up by one byte
C30_AmountShiftedByOpcode ==
    variant # "multi" =>
        \A c \in AmountFieldCalls :
            deposit(Here, c).invoked =>
                deposit(Here, c).amount = 1 + 2 * (AmountField(c) % 2)

\* every deposit that started has ended
AllReturned == \A u \in UserAccounts : in_flight[u].pc = "idle"

\* C31: deposit holds no lock of its own.  When every deposit ran from its
\* invoke to its last serialize with no step of another between, the Pool's
\* tvl and total_unit equal the sum of the amounts the gateway moved in; run
\* step by step beside each other, two deposits can end with a tvl below
\* that sum, and never above it.
C31_SerialDepositsLoseNothing ==
    LET pool == pool_data["p1"]
    IN /\ pool.tvl <= moved_in /\ pool.total_unit <= moved_in
       /\ serial /\ AllReturned =>
              pool.tvl = moved_in /\ pool.total_unit = moved_in

\* two deposits have returned and the Pool holds less than they moved in
C31_LostUpdate ==
    /\ AllReturned
    /\ ~serial
    /\ pool_data["p1"].tvl < moved_in
    /\ pool_data["p1"].tvl > 0

\* the withdraw calls made for the caller and the pool of withdraw call c
SameWithdraws(c) ==
    {c2 \in WithdrawCalls :
        /\ c2.user_account = c.user_account
        /\ c2.pool_account = c.pool_account
        /\ variant = "multi" /\ c.payload.kind = "QueryParam" =>
               c2.payload = c.payload}

\* C32: a withdraw that made the gateway move a non-zero amount out of the
\* pool is followed, while the caller deposits nothing, by no withdraw of
\* that caller from that pool that moves a non-zero amount again: what a
\* caller is paid never exceeds what the caller paid in.
C32_NoSecondPayout ==
    \A c \in WithdrawCalls :
        LET r == withdraw(Here, c)
        IN r.moved /\ r.amount > 0 =>
              \A c2 \in SameWithdraws(c), t \in now .. MaxTime :
                  LET r2 == withdraw([After(Here, r) EXCEPT !.now = t], c2)
                  IN ~(r2.moved /\ r2.amount > 0)

\* the pool a deposit or withdraw call c is for in state s: the account the
\* registry indexes the call's pool_id to (multi program), or the
\* pool_pubkey of the caller's Deposits (single and yield programs)
PoolOf(s, c) ==
    IF variant = "multi"
    THEN IF s.pool_list.kind = "PoolList" /\ c.payload.kind # "Malformed"
         THEN find_pubkey(s.pool_list.pool_id_to_pubkey, c.payload.pool_id)
         ELSE "None"
    ELSE IF s.user_data[c.user_account].kind = "Deposits"
         THEN s.user_data[c.user_account].pool_pubkey
         ELSE "None"

\* the pool accounts whose data a call that returned r has changed
ChangedPools(r) == {p \in PoolAccounts : r.pool_data[p] # pool_data[p]}

\* C33: the only Pool a deposit changes is the pool of the deposit it leaves
\* stored, and the only Pool a withdraw changes is the pool the caller's
\* deposit was made into: the account indexed under the call's pool_id in
\* the multi program, the Deposits' pool_pubkey in the others.
C33_ActsOnDepositsPool ==
    /\ \A c \in DepositCalls :
           LET r == deposit(Here, c)
           IN ChangedPools(r) \subseteq {PoolOf(After(Here, r), c)}
    /\ \A c \in WithdrawCalls :
           LET r == withdraw(Here, c)
           IN ChangedPools(r) \subseteq {PoolOf(Here, c)}

\* C33 for withdraw alone
C33_WithdrawFromDepositsPool ==
    \A c \in WithdrawCalls :
        ChangedPools(withdraw(Here, c)) \subseteq {PoolOf(Here, c)}

\* C34: create_pool leaves every stored Pool's tvl, total_unit, apy and
\* min_period as they are: called on the account of an existing Pool it
\* does not reset or replace them.
C34_CreateKeepsExistingPool ==
    \A c \in CreateCalls, p \in PoolAccounts :
        LET r == create_pool(Here, c)
            before == pool_data[p]
            after == r.pool_data[p]
        IN before.kind = "Pool" =>
              /\ after.tvl = before.tvl
              /\ after.total_unit = before.total_unit
              /\ after.apy = before.apy
              /\ after.min_period = before.min_period

\* C34 where it matters: a Pool that holds deposits keeps its tvl
C34_CreateKeepsFundedPool ==
    \A c \in CreateCalls, p \in PoolAccounts :
        pool_data[p].kind = "Pool" /\ pool_data[p].tvl > 0 =>
            create_pool(Here, c).pool_data[p].tvl = pool_data[p].tvl

\* call c with the accounts and payload in order but for the caller's
\* signature
OnlySignatureMissing(c, opcode) ==
    /\ ~c.is_signer
    /\ c.enough
    /\ c.pool_account \in ProgramOwned
    /\ IF variant = "multi" THEN c.payload.kind # "Malformed"
       ELSE Len(Dispatched(opcode, c.payload)) >= U64Bytes

\* a call whose user_account did not sign returned r: an error, no invoke,
\* and MissingRequiredSignature when nothing else is wrong with the call
RefusedUnsigned(r, nothing_else) ==
    /\ r.err # "Ok"
    /\ ~r.invoked
    /\ nothing_else => r.err = "MissingRequiredSignature"

\* deposit and withdraw refuse a caller who did not sign
UnsignedDepositWithdrawRefused ==
    /\ \A c \in DepositCalls :
           ~c.is_signer =>
               RefusedUnsigned(deposit(Here, c), OnlySignatureMissing(c, 1))
    /\ \A c \in WithdrawCalls :
           ~c.is_signer =>
               RefusedUnsigned(withdraw(Here, c), OnlySignatureMissing(c, 2))

\* the withdraw_rewards calls whose user_account did not sign
UnsignedRewardCalls == {[c EXCEPT !.is_signer = FALSE] : c \in RewardCalls}

\* C35: deposit, withdraw and withdraw_rewards called with a user_account
\* that is not a signer return an error without calling invoke, and return
\* MissingRequiredSignature when the call is otherwise in order (for
\* withdraw_rewards: when the same call with the signature returns Ok).
C35_UnsignedCallsRefused ==
    /\ UnsignedDepositWithdrawRefused
    /\ variant = "yield" =>
           \A s \in RewardStates, c \in UnsignedRewardCalls :
               RefusedUnsigned(claim_reward(s, c),
                               claim_reward(s, [c EXCEPT !.is_signer = TRUE]).err
                                   = "Ok")

\* C36: whatever u64 values start_date and min_period hold, a withdraw that
\* calls invoke or returns Ok runs at a time now that is not below the sum
\* start_date + min_period taken in the integers.
C36_LockupOverWholeRange ==
    \A c \in WithdrawCalls :
        LET r == withdraw(Here, c)
            pool == pool_data[c.pool_account]
            stored == StoredDeposit(Here, c)
        IN r.invoked \/ r.err = "Ok" =>
               now >= stored.start_date + pool.min_period

\* C36 in a build with overflow checks, where the sum panics
C36_LockupWithOverflowChecks == overflow_checks => C36_LockupOverWholeRange

\* x is beyond the largest u64 of this behaviour
BeyondU64(x) == x > u64_mod - 1

\* C37 for deposit: a deposit in which deposit_amount * apy, or the stored
\* principal after the deposit * apy, is beyond the largest u64 does not
\* return Ok
C37_DepositProductsNotWrapped ==
    \A u \in UserAccounts, a \in DepositInputs :
        LET r == deposit_book(Here, "p1", u, a)
            d == user_data[u]
            apy == pool_data["p1"].apy
            principal == IF d.kind = "Deposits" THEN d.deposited_amount + a ELSE a
        IN BeyondU64(a * apy) \/ BeyondU64(principal * apy) => r.err # "Ok"

\* C37 for withdraw_rewards: a claim in which daily_payout * elapsed_days, or
\* that reward * apy, is beyond the largest u64 does not return Ok
C37_ClaimProductsNotWrapped ==
    \A u \in UserAccounts :
        LET r == withdraw_rewards(Here, "p1", u, TRUE, TRUE)
            d == user_data[u]
            elapsed_days == (now - RewardsSince(d)) \div 86400
            reward == d.daily_payout * elapsed_days
        IN variant = "yield" /\ d.kind = "Deposits"
           /\ (BeyondU64(reward) \/ BeyondU64(reward * pool_data["p1"].apy))
           => r.err # "Ok"

\* C37: no deposit and no withdraw_rewards returns Ok when one of the
\* products principal * apy, daily_payout * elapsed_days or reward * apy of
\* its formulas is beyond the largest u64.
C37_ProductsNotWrapped ==
    C37_DepositProductsNotWrapped /\ C37_ClaimProductsNotWrapped

\* C37 in a build with overflow checks, where the products panic
C37_ProductsWithOverflowChecks == overflow_checks => C37_ProductsNotWrapped

\* an instruction with a wrong number of accounts returns Custom(502) and
\* no handler has run: no account is changed
C38_WrongCountRefused ==
    \A d \in LoopInstructions, accounts \in AccountLists, handler_ok \in BOOLEAN :
        LET r == loop_process_instruction(loop_data, d, accounts, handler_ok)
        IN d.kind = "Data" /\ d.opcode \in 0 .. 3
           /\ Len(accounts) # ExpectedAccounts(d.opcode)
           => r.err = "Custom502" /\ r.data = loop_data

\* opcode 0 with accounts, payload and mint such that process_instruction
\* returns Ok, the second account handed in holds the mint and the first
\* the Agent
C38_CreateAgentSucceeds ==
    \E accounts \in AccountLists, payload_ok \in BOOLEAN, mint_ok \in BOOLEAN :
        LET r == loop_process_instruction(
                     loop_data,
                     [kind |-> "Data", opcode |-> 0, payload_ok |-> payload_ok],
                     accounts, mint_ok)
        IN /\ r.err = "Ok"
           /\ r.data[accounts[1]].kind = "Agent"

\* C38: in the loop program some instruction with opcode 0 and a number of
\* accounts that process_instruction accepts makes create_agent initialise
\* the mint and write the Agent, and every instruction of opcodes 0..3 with
\* another number of accounts returns Custom(502) before a handler runs.
C38_CreateAgentCanSucceed == C38_CreateAgentSucceeds /\ C38_WrongCountRefused

\* opcode 0 returns Custom(502), or NotEnoughAccountKeys from create_agent's
\* second next_account_info, and no Agent is ever written
C38_CreateAgentNeverSucceeds ==
    /\ \A a \in LoopAccounts : loop_data[a] = Uninit
    /\ loop_ret # NoRet /\ loop_ret.instruction_data.kind = "Data"
       /\ loop_ret.instruction_data.opcode = 0
       => loop_ret.err \in {"Custom502", "NotEnoughAccountKeys"}

\* the spins start computes are between 0 and 10
C39_SpinsInRange ==
    \A a \in RushAccounts :
        LET r == start(rush_data, <<a>>, now)
        IN r.err = "Ok" => r.user.spins \in 0 .. 10

\* create_user leaves every account as it was
C39_CreateUserStoresNothing ==
    \A accounts \in RushAccountLists :
        create_user(rush_data, accounts).data = rush_data

\* C39: after a successful create_user on an account that holds no User,
\* the account holds a User with spins 10 and last_spin_time 0; start,
\* end_game and get_user on it then return Ok and a second create_user
\* returns AccountAlreadyInitialized; and the spins start computes are
\* between 0 and 10.
C39_CreateUserPersists ==
    /\ \A a \in RushAccounts :
           LET r == create_user(rush_data, <<a>>)
           IN rush_data[a].kind # "User" /\ r.err = "Ok" =>
                 /\ r.data[a] = User(a, 10, 0)
                 /\ start(r.data, <<a>>, now).err = "Ok"
                 /\ end_game(r.data, <<a>>, now).err = "Ok"
                 /\ get_user(r.data, <<a>>).err = "Ok"
                 /\ create_user(r.data, <<a>>).err = "AccountAlreadyInitialized"
    /\ C39_SpinsInRange

====
